---- MODULE Spec2Model ----
(***************************************************************************)
(* Redaction pipeline of the PDF redaction tool (utils/pdfRedactor.ts and  *)
(* its caller app/page.tsx).                                               *)
(*                                                                         *)
(* A PDF byte buffer is abstracted to what the code observes of it: its    *)
(* length, whether its leading bytes are %PDF, what the pdf-lib loader     *)
(* does with it, its page count, and which producer wrote its content.     *)
(* Calls into pdf-lib / pdf.js / the canvas are environment choices: each  *)
(* may throw, and a save may yield any buffer of the candidate set.        *)
(* Reading the File (pdfFile.arrayBuffer()) is assumed to succeed.         *)
(*                                                                         *)
(* Spec      : handleRedact / redactPDF and the strategies it runs.        *)
(* SpecMap   : the display-space to PDF-space rectangle mapping of the     *)
(*             overlay strategies, applied to bounded inputs.              *)
(* SpecFn    : the page groupings, the sidebar sort and isPdfEncrypted,    *)
(*             applied to bounded inputs.                                  *)
(* SpecStore : Home, PDFViewer, usePdfLoader and PDFCanvas while files are *)
(*             uploaded, loaded and unlocked and areas drawn and removed.  *)
(* SpecApply : the same components while areas are drawn and the Apply     *)
(*             button is pressed; SpecApplyFair adds that its timers fire  *)
(*             and the download promise settles.                           *)
(* SpecDraw  : the redaction loops of direct overlay and rebuild-copy,     *)
(*             where a drawRectangle call may throw.                       *)
(* SpecLoader: one usePdfLoader instance whose file is replaced while      *)
(*             earlier loads are running.                                  *)
(* SpecRender: the render effect of PDFCanvas across dependency changes.   *)
(* SpecWorker: pdfWorkerLoader and setupPdfWorker under repeated calls.    *)
(***************************************************************************)
EXTENDS Integers, Sequences, FiniteSets, TLC

VARIABLES
    file,            \* bytes of the File handed to the pipeline
    areas,           \* redactionAreas argument
    copyOnly,        \* third argument of redactPDF
    caller,          \* "ui" (Home.handleRedact) or "api" (direct redactPDF call)
    hpc,             \* position in Home.handleRedact
    isProcessing,    \* Home state
    error,           \* Home state
    successMessage,  \* Home state
    downloaded,      \* bytes handed to downloadPdfBlob
    pc,              \* position in redactPDF
    attemptIdx,      \* index into the attempts array
    ppc,             \* position inside processRedactions
    result,          \* const result = await attempt.method()
    ret,             \* value redactPDF resolved with
    retAt,           \* source line of the return statement taken
    settle,          \* "pending" | "resolved" | "rejected"
    started,         \* strategies started, in order
    rejected,        \* strategies that completed without an accepted output
    thrown,          \* strategies that threw
    validated,       \* strategies whose own output passed a validation
    lastCheck,       \* last validation performed: candidate and verdict
    mpc,             \* position of the mapping harness
    mapScale,        \* display scale the area was drawn at
    mapPage,         \* page size in points
    mapArea,         \* the area in display pixels
    mapRect,         \* rectangle handed to page.drawRectangle
    mapBy,           \* which overlay strategy drew it
    dpc,             \* position in the redaction loop of an overlay strategy
    drawBy,          \* "overlay" (direct overlay) or "rebuild" (rebuild-copy)
    drawDoc,         \* getPageCount() of the document drawn on
    drawIn,          \* redactionAreas given to the strategy
    drawTodo,        \* areas the two nested loops have not reached yet
    drawn,           \* areas whose drawRectangle call returned
    drawThrew,       \* areas whose drawRectangle call threw
    drawSkipped,     \* areas skipped with their page
    hookFile,        \* the file argument of usePdfLoader
    hook,            \* state and ref of one usePdfLoader instance
    hookLoads,       \* loadPdf() calls of that instance in flight
    render,          \* the render effect of one PDFCanvas instance
    worker,          \* the PDF.js worker setup of the browser tab
    fpc,             \* position of the list-function harness
    fnAreas,         \* redactionAreas given to a grouping or to the list sort
    fnIn,            \* the list the last grouping iterated over
    fnGroups,        \* groups built by the last grouping, keyed by page number
    fnSorted,        \* sortedAreas of RedactionAreasList
    fnLoad,          \* what PDFDocument.load does inside isPdfEncrypted
    fnEnc,           \* settlement of the isPdfEncrypted promise
    fnBy,            \* which function produced the output
    upc,             \* "off" | "on": whether the page component tree is modelled
    uploadedFile,    \* Home state
    homeAreas,       \* Home state redactionAreas
    viewerInst,      \* identity of the mounted PDFViewer instance
    currentPage,     \* PDFViewer state
    viewerAreas,     \* PDFViewer state redactionAreas
    viewerProcessing,\* PDFViewer state isProcessing
    isUnlocking,     \* PDFViewer state
    unlockError,     \* PDFViewer state
    pdfDocument,     \* usePdfLoader state
    totalPages,      \* usePdfLoader state
    isLoading,       \* usePdfLoader state
    isPdfEncrypted,  \* usePdfLoader state
    loadError,       \* usePdfLoader state error
    currentFileRef,  \* usePdfLoader ref
    loads,           \* loadPdf() calls in flight
    isDrawing,       \* PDFCanvas state
    startPos,        \* PDFCanvas state
    currentArea,     \* PDFCanvas state
    applyTimers,     \* pending 100 ms timers of the Apply button
    inFlight,        \* handleRedact calls awaiting downloadRedactedPDF
    unlockJobs,      \* unlockPdf() calls in flight
    nextRef,         \* next object identity for a created area
    nextFile,        \* next identity for a File object
    lastRemoved,     \* identity of the list item whose remove button was pressed last
    lastUnlock       \* whether a step of the last settled unlockPdf call failed

vars ==
    <<file, areas, copyOnly, caller, hpc, isProcessing, error, successMessage,
      downloaded, pc, attemptIdx, ppc, result, ret, retAt, settle, started, rejected,
      thrown, validated, lastCheck, mpc, mapScale, mapPage, mapArea, mapRect,
      mapBy, dpc, drawBy, drawDoc, drawIn, drawTodo, drawn, drawThrew,
      drawSkipped, hookFile, hook, hookLoads, render, worker, fpc, fnAreas, fnIn, fnGroups, fnSorted, fnLoad, fnEnc, fnBy,
      upc, uploadedFile, homeAreas, viewerInst, currentPage, viewerAreas,
      viewerProcessing, isUnlocking, unlockError, pdfDocument, totalPages, isLoading,
      isPdfEncrypted, loadError, currentFileRef, loads, isDrawing, startPos,
      currentArea, applyTimers, inFlight, unlockJobs, nextRef, nextFile,
      lastRemoved, lastUnlock>>

pipeVars ==
    <<file, areas, copyOnly, caller, hpc, isProcessing, error, successMessage,
      downloaded, pc, attemptIdx, ppc, result, ret, retAt, settle, started, rejected,
      thrown, validated, lastCheck>>

drawVars ==
    <<dpc, drawBy, drawDoc, drawIn, drawTodo, drawn, drawThrew, drawSkipped>>

hookVars ==
    <<hookFile, hook, hookLoads>>

mapOwn ==
    <<mpc, mapScale, mapPage, mapArea, mapRect, mapBy>>

mapVars ==
    <<mapOwn, drawVars, hookVars, render, worker>>

fnVars ==
    <<fpc, fnAreas, fnIn, fnGroups, fnSorted, fnLoad, fnEnc, fnBy>>

uiVars ==
    <<upc, uploadedFile, homeAreas, viewerInst, currentPage, viewerAreas,
      viewerProcessing, isUnlocking, unlockError, pdfDocument, totalPages, isLoading,
      isPdfEncrypted, loadError, currentFileRef, loads, isDrawing, startPos,
      currentArea, applyTimers, inFlight, unlockJobs, nextRef, nextFile,
      lastRemoved, lastUnlock>>

----------------------------------------------------------------------------
\* Bounds of the model

MaxPages ==
    2

MaxAreas ==
    2

\* Program constants

MinPdfSize ==
    1000

MinDownloadSize ==
    100

----------------------------------------------------------------------------
\* Buffers

Lens ==
    {50, 999, 1000, 2000}

Max(a, b) ==
    IF a >= b THEN a ELSE b

Min(a, b) ==
    IF a <= b THEN a ELSE b

Buf(c, l, h, k, p) ==
    [content |-> c, len |-> l, hdr |-> h, kind |-> k, pages |-> p]

Threw ==
    Buf("threw", 0, FALSE, "corrupt", 0)

NoBuf ==
    Buf("none", 0, FALSE, "corrupt", 0)

\* Input files: any length, header or not, loadable / encrypted / corrupt.
Files ==
    { Buf("original", l, h, k, p) :
        l \in Lens, h \in BOOLEAN, k \in {"ok", "encrypted", "corrupt"},
        p \in 0..MaxPages }

\* What a save() of a document built by strategy c may hand back.
Outputs(c, p) ==
    { Buf(c, l, h, k, p) : l \in Lens, h \in BOOLEAN, k \in {"ok", "corrupt"} }

AreaPool ==
    { [pageNumber |-> p, x |-> 10, y |-> 20, width |-> 30, height |-> 15] :
        p \in 1..MaxPages }

AreaLists ==
    UNION { [1..n -> AreaPool] : n \in 0..MaxAreas }

\* PDFDocument.load(bytes) without ignoreEncryption
StrictLoadOk(b) ==
    b.kind = "ok"

\* new Uint8Array(await pdfFile.arrayBuffer())
OriginalPdfBytesTruncated(f) ==
    [f EXCEPT !.len = 0]

OriginalPdfBytes(f) ==
    f

----------------------------------------------------------------------------
\* Output validation

\* processRedactions, direct overlay: size, header, reload
ValidateOverlay(b) ==
    IF b.len < MinPdfSize THEN FALSE
    ELSE IF ~b.hdr THEN FALSE
    ELSE StrictLoadOk(b)

\* processRedactions, rebuild-copy fallback: size, header, reload
ValidateFallback(b) ==
    IF b.len < MinPdfSize THEN FALSE
    ELSE IF ~b.hdr THEN FALSE
    ELSE StrictLoadOk(b)

\* canvasRedaction: size only
ValidateCanvas(b) ==
    ~(b.len < MinPdfSize)

ValidateResultNoReload(b) ==
    IF b.len < MinPdfSize THEN FALSE
    ELSE b.hdr

ValidateResultOffByOne(b) ==
    IF b.len <= MinPdfSize THEN FALSE
    ELSE IF ~b.hdr THEN FALSE
    ELSE StrictLoadOk(b)

\* redactPDF: size, header, reload
ValidateResult(b) ==
    IF b.len < MinPdfSize THEN FALSE
    ELSE IF ~b.hdr THEN FALSE
    ELSE StrictLoadOk(b)

AttemptsPrimaryFirst ==
    <<"Primary approach", "Screenshot approach", "Canvas approach">>

\* const attempts = [...]
Attempts ==
    <<"Screenshot approach", "Primary approach", "Canvas approach">>

AttemptOutcomeUncaught(r) ==
    IF r = Threw THEN "propagate"
    ELSE IF ValidateResult(r) THEN "return"
    ELSE "next"

\* body of the for loop over attempts: try / validate / continue / catch
AttemptOutcome(r) ==
    IF r = Threw THEN "next"
    ELSE IF ValidateResult(r) THEN "return"
    ELSE "next"

Last(s) ==
    s[Len(s)]

----------------------------------------------------------------------------
\* Messages

MsgNull ==
    "null"

MsgSelect ==
    "Please upload a PDF and select areas to redact"

MsgSuccess ==
    "PDF redacted successfully! Download complete."

MsgTooSmall ==
    "Redacted PDF appears to be invalid (too small or empty)"

MsgBlob ==
    "Failed to download the PDF file."

MsgInvalid ==
    "This PDF appears to be invalid or corrupted. Please try a different PDF."

MsgRedactionError ==
    "PDF redaction error: Failed to download the PDF file."

\* the catch branch of handleRedact's timer callback
ErrorMessageFor(m) ==
    IF m = MsgTooSmall THEN MsgInvalid
    ELSE MsgRedactionError

\* downloadRedactedPDF after redactPDF resolved: the message it throws, or MsgNull
DownloadThrows(bytes, blobOk) ==
    IF bytes.len < MinDownloadSize THEN MsgTooSmall
    ELSE IF ~blobOk THEN MsgBlob
    ELSE MsgNull

----------------------------------------------------------------------------
\* Initial states

DrawIdle ==
    /\ dpc = "off"
    /\ drawBy = "none"
    /\ drawDoc = 0
    /\ drawIn = <<>>
    /\ drawTodo = <<>>
    /\ drawn = <<>>
    /\ drawThrew = {}
    /\ drawSkipped = {}

\* useState / useRef initial values of usePdfLoader
HookFresh ==
    [pdfDocument |-> 0, totalPages |-> 0, isLoading |-> FALSE,
     loadingProgress |-> 0, error |-> FALSE, isPdfEncrypted |-> FALSE,
     currentFileRef |-> 0]

HookIdle ==
    /\ hookFile = [id |-> 0, pages |-> 0, encrypted |-> FALSE]
    /\ hook = HookFresh
    /\ hookLoads = {}

MapOff ==
    /\ mpc = "off"
    /\ mapScale = 1
    /\ mapPage = [width |-> 0, height |-> 0]
    /\ mapArea = [pageNumber |-> 1, x |-> 0, y |-> 0, width |-> 0, height |-> 0]
    /\ mapRect = [x |-> 0, y |-> 0, width |-> 0, height |-> 0]
    /\ mapBy = "none"

MapIdle ==
    /\ MapOff
    /\ DrawIdle
    /\ HookIdle
    /\ render = [pc |-> "off"]
    /\ worker = [pc |-> "off"]

PipeIdle ==
    /\ hpc = "idle"
    /\ isProcessing = FALSE
    /\ error = MsgNull
    /\ successMessage = MsgNull
    /\ downloaded = NoBuf
    /\ pc = "idle"
    /\ attemptIdx = 1
    /\ ppc = "none"
    /\ result = NoBuf
    /\ ret = NoBuf
    /\ retAt = 0
    /\ settle = "pending"
    /\ started = <<>>
    /\ rejected = {}
    /\ thrown = {}
    /\ validated = {}
    /\ lastCheck = [cand |-> NoBuf, ok |-> FALSE, at |-> 0]

\* null for a File, a position and an area
NoFile ==
    [id |-> 0, pages |-> 0, encrypted |-> FALSE, unlocked |-> FALSE]

NoPos ==
    [x |-> -1, y |-> -1]

NoArea ==
    [pageNumber |-> 0, x |-> 0, y |-> 0, width |-> 0, height |-> 0]

NoGroups ==
    [k \in {} |-> <<>>]

FnIdle ==
    /\ fpc = "off"
    /\ fnAreas = <<>>
    /\ fnIn = <<>>
    /\ fnGroups = NoGroups
    /\ fnSorted = <<>>
    /\ fnLoad = [kind |-> "ok", message |-> <<>>]
    /\ fnEnc = [settled |-> "pending", value |-> FALSE]
    /\ fnBy = "none"

\* useState / useRef initial values of Home, PDFViewer, usePdfLoader and PDFCanvas
UiFresh ==
    /\ uploadedFile = NoFile
    /\ homeAreas = <<>>
    /\ viewerInst = 0
    /\ currentPage = 1
    /\ viewerAreas = <<>>
    /\ viewerProcessing = FALSE
    /\ isUnlocking = FALSE
    /\ unlockError = MsgNull
    /\ pdfDocument = NoFile
    /\ totalPages = 0
    /\ isLoading = FALSE
    /\ isPdfEncrypted = FALSE
    /\ loadError = FALSE
    /\ currentFileRef = NoFile
    /\ loads = {}
    /\ isDrawing = FALSE
    /\ startPos = NoPos
    /\ currentArea = NoArea
    /\ applyTimers = {}
    /\ inFlight = 0
    /\ unlockJobs = {}
    /\ nextRef = 1
    /\ nextFile = 1
    /\ lastRemoved = 0
    /\ lastUnlock = "never"

UiIdle ==
    /\ upc = "off"
    /\ UiFresh

Init ==
    /\ file \in Files
    /\ areas \in AreaLists
    /\ \/ caller = "ui" /\ copyOnly = FALSE
       \/ caller = "api" /\ copyOnly \in BOOLEAN
    /\ PipeIdle
    /\ MapIdle
    /\ FnIdle
    /\ UiIdle

----------------------------------------------------------------------------
\* Home.handleRedact

HandleRedact ==
    /\ caller = "ui"
    /\ hpc = "idle"
    /\ IF Len(areas) = 0
       THEN /\ error' = MsgSelect
            /\ hpc' = "finished"
            /\ UNCHANGED <<isProcessing, successMessage>>
       ELSE /\ isProcessing' = TRUE
            /\ error' = MsgNull
            /\ successMessage' = MsgNull
            /\ hpc' = "timer"
    /\ UNCHANGED <<file, areas, copyOnly, caller, downloaded, pc, attemptIdx,
                   ppc, result, ret, retAt, settle, started, rejected, thrown,
                   validated, lastCheck>>
    /\ UNCHANGED <<mapVars, fnVars, uiVars>>

\* the 200 ms timer fires: downloadRedactedPDF calls redactPDF
TimerFires ==
    /\ hpc = "timer"
    /\ pc = "idle"
    /\ hpc' = "awaiting"
    /\ pc' = "entry"
    /\ UNCHANGED <<file, areas, copyOnly, caller, isProcessing, error,
                   successMessage, downloaded, attemptIdx, ppc, result, ret,
                   retAt, settle, started, rejected, thrown, validated,
                   lastCheck>>
    /\ UNCHANGED <<mapVars, fnVars, uiVars>>

\* downloadRedactedPDF settles and handleRedact finishes
DownloadSettle ==
    /\ hpc = "awaiting"
    /\ pc = "done"
    /\ \E blobOk \in BOOLEAN :
         LET m == IF settle = "rejected" THEN MsgBlob
                  ELSE DownloadThrows(ret, blobOk)
         IN  IF m = MsgNull
             THEN /\ downloaded' = ret
                  /\ successMessage' = MsgSuccess
                  /\ error' = error
             ELSE /\ error' = ErrorMessageFor(m)
                  /\ UNCHANGED <<downloaded, successMessage>>
    /\ isProcessing' = FALSE
    /\ hpc' = "finished"
    /\ UNCHANGED <<file, areas, copyOnly, caller, pc, attemptIdx, ppc, result,
                   ret, retAt, settle, started, rejected, thrown, validated,
                   lastCheck>>
    /\ UNCHANGED <<mapVars, fnVars, uiVars>>

\* redactPDF called directly
ApiCall ==
    /\ caller = "api"
    /\ pc = "idle"
    /\ pc' = "entry"
    /\ UNCHANGED <<file, areas, copyOnly, caller, hpc, isProcessing, error,
                   successMessage, downloaded, attemptIdx, ppc, result, ret,
                   retAt, settle, started, rejected, thrown, validated,
                   lastCheck>>
    /\ UNCHANGED <<mapVars, fnVars, uiVars>>


----------------------------------------------------------------------------
\* redactPDF

\* if (copyOnly || redactionAreas.length === 0)
ShortCircuitCopyOnly(co, list) ==
    co

ShortCircuit(co, list) ==
    co \/ Len(list) = 0

\* entry: the copyOnly / empty-list short circuit, else start the attempts
RedactEntry ==
    /\ pc = "entry"
    /\ IF ShortCircuit(copyOnly, areas)
       THEN /\ ret' = OriginalPdfBytes(file)
            /\ retAt' = 691
            /\ settle' = "resolved"
            /\ pc' = "done"
       ELSE /\ pc' = "attempt"
            /\ UNCHANGED <<ret, retAt, settle>>
    /\ UNCHANGED <<file, areas, copyOnly, caller, hpc, isProcessing, error,
                   successMessage, downloaded, attemptIdx, ppc, result,
                   started, rejected, thrown, validated, lastCheck>>
    /\ UNCHANGED <<mapVars, fnVars, uiVars>>

\* attempt "Screenshot approach": screenshotBasedRedaction
TryScreenshot ==
    /\ pc = "attempt"
    /\ attemptIdx <= Len(Attempts)
    /\ Attempts[attemptIdx] = "Screenshot approach"
    /\ started' = Append(started, "screenshot")
    /\ \E r \in {Threw} \cup Outputs("screenshot", file.pages) :
         /\ result' = r
         /\ thrown' = IF r = Threw THEN thrown \cup {"screenshot"} ELSE thrown
    /\ pc' = "validate"
    /\ UNCHANGED <<file, areas, copyOnly, caller, hpc, isProcessing, error,
                   successMessage, downloaded, attemptIdx, ppc, ret, retAt,
                   settle, rejected, validated, lastCheck>>
    /\ UNCHANGED <<mapVars, fnVars, uiVars>>

\* attempt "Primary approach": processRedactions up to the verifying load
PrimaryVerify ==
    /\ pc = "attempt"
    /\ attemptIdx <= Len(Attempts)
    /\ Attempts[attemptIdx] = "Primary approach"
    /\ ppc = "none"
    /\ IF StrictLoadOk(file)
       THEN /\ ppc' = "overlay"
            /\ UNCHANGED <<pc, result>>
       ELSE /\ result' = OriginalPdfBytes(file)
            /\ pc' = "validate"
            /\ ppc' = "none"
    /\ UNCHANGED <<file, areas, copyOnly, caller, hpc, isProcessing, error,
                   successMessage, downloaded, attemptIdx, ret, retAt, settle,
                   started, rejected, thrown, validated, lastCheck>>
    /\ UNCHANGED <<mapVars, fnVars, uiVars>>

\* processRedactions: direct overlay on the loaded document, save, validate
PrimaryOverlay ==
    /\ pc = "attempt"
    /\ ppc = "overlay"
    /\ started' = Append(started, "overlay")
    /\ \E r \in (IF file.pages <= 0 THEN {Threw}
                 ELSE {Threw} \cup Outputs("overlay", file.pages)) :
         IF r = Threw
         THEN /\ thrown' = thrown \cup {"overlay"}
              /\ rejected' = rejected \cup {"overlay"}
              /\ ppc' = "rebuild"
              /\ UNCHANGED <<pc, result, validated, lastCheck>>
         ELSE /\ lastCheck' = [cand |-> r, ok |-> ValidateOverlay(r), at |-> 192]
              /\ IF ValidateOverlay(r)
                 THEN /\ validated' = validated \cup {"overlay"}
                      /\ result' = r
                      /\ pc' = "validate"
                      /\ ppc' = "none"
                      /\ UNCHANGED <<thrown, rejected>>
                 ELSE /\ thrown' = thrown \cup {"overlay"}
                      /\ rejected' = rejected \cup {"overlay"}
                      /\ ppc' = "rebuild"
                      /\ UNCHANGED <<pc, result, validated>>
    /\ UNCHANGED <<file, areas, copyOnly, caller, hpc, isProcessing, error,
                   successMessage, downloaded, attemptIdx, ret, retAt, settle>>
    /\ UNCHANGED <<mapVars, fnVars, uiVars>>

\* processRedactions: rebuild-copy fallback, else the original bytes
PrimaryFallback ==
    /\ pc = "attempt"
    /\ ppc = "rebuild"
    /\ started' = Append(started, "rebuild")
    /\ \E r \in {Threw} \cup Outputs("rebuild", file.pages) :
         IF r = Threw
         THEN /\ thrown' = thrown \cup {"rebuild"}
              /\ rejected' = rejected \cup {"rebuild"}
              /\ result' = OriginalPdfBytes(file)
              /\ UNCHANGED <<validated, lastCheck>>
         ELSE /\ lastCheck' = [cand |-> r, ok |-> ValidateFallback(r), at |-> 302]
              /\ IF ValidateFallback(r)
                 THEN /\ validated' = validated \cup {"rebuild"}
                      /\ result' = r
                      /\ UNCHANGED <<thrown, rejected>>
                 ELSE /\ thrown' = thrown \cup {"rebuild"}
                      /\ rejected' = rejected \cup {"rebuild"}
                      /\ result' = OriginalPdfBytes(file)
                      /\ UNCHANGED validated
    /\ pc' = "validate"
    /\ ppc' = "none"
    /\ UNCHANGED <<file, areas, copyOnly, caller, hpc, isProcessing, error,
                   successMessage, downloaded, attemptIdx, ret, retAt, settle>>
    /\ UNCHANGED <<mapVars, fnVars, uiVars>>

\* attempt "Canvas approach": canvasRedaction (a failed render skips the page)
TryCanvas ==
    /\ pc = "attempt"
    /\ attemptIdx <= Len(Attempts)
    /\ Attempts[attemptIdx] = "Canvas approach"
    /\ started' = Append(started, "canvas")
    /\ \E skipped \in 0..file.pages :
       \E r \in {Threw} \cup Outputs("canvas", file.pages - skipped) :
         LET out == IF r = Threw \/ ~ValidateCanvas(r) THEN Threw ELSE r
         IN  /\ result' = out
             /\ thrown' = IF out = Threw THEN thrown \cup {"canvas"} ELSE thrown
    /\ pc' = "validate"
    /\ UNCHANGED <<file, areas, copyOnly, caller, hpc, isProcessing, error,
                   successMessage, downloaded, attemptIdx, ppc, ret, retAt,
                   settle, rejected, validated, lastCheck>>
    /\ UNCHANGED <<mapVars, fnVars, uiVars>>

\* the executor's handling of one attempt's result
ValidateAttempt ==
    /\ pc = "validate"
    /\ LET out == AttemptOutcome(result)
           own == IF result = Threw THEN {Last(started)}
                  ELSE IF result.content = "original" THEN {}
                  ELSE {result.content}
       IN  /\ lastCheck' = IF result = Threw THEN lastCheck
                           ELSE [cand |-> result, ok |-> (out = "return"),
                                 at |-> 724]
           /\ CASE out = "return" ->
                     /\ ret' = result
                     /\ retAt' = 740
                     /\ settle' = "resolved"
                     /\ pc' = "done"
                     /\ validated' = validated \cup own
                     /\ UNCHANGED <<attemptIdx, rejected>>
                [] out = "next" ->
                     /\ attemptIdx' = attemptIdx + 1
                     /\ pc' = "attempt"
                     /\ rejected' = rejected \cup own
                     /\ UNCHANGED <<ret, retAt, settle, validated>>
                [] OTHER ->
                     /\ ret' = OriginalPdfBytes(file)
                     /\ retAt' = 757
                     /\ settle' = "resolved"
                     /\ pc' = "done"
                     /\ rejected' = rejected \cup own
                     /\ UNCHANGED <<attemptIdx, validated>>
    /\ UNCHANGED <<file, areas, copyOnly, caller, hpc, isProcessing, error,
                   successMessage, downloaded, ppc, result, started, thrown>>
    /\ UNCHANGED <<mapVars, fnVars, uiVars>>

\* every attempt was rejected: return the original bytes
Exhausted ==
    /\ pc = "attempt"
    /\ attemptIdx > Len(Attempts)
    /\ ret' = OriginalPdfBytes(file)
    /\ retAt' = 751
    /\ settle' = "resolved"
    /\ pc' = "done"
    /\ UNCHANGED <<file, areas, copyOnly, caller, hpc, isProcessing, error,
                   successMessage, downloaded, attemptIdx, ppc, result,
                   started, rejected, thrown, validated, lastCheck>>
    /\ UNCHANGED <<mapVars, fnVars, uiVars>>

Next ==
    \/ HandleRedact
    \/ TimerFires
    \/ DownloadSettle
    \/ ApiCall
    \/ RedactEntry
    \/ TryScreenshot
    \/ PrimaryVerify
    \/ PrimaryOverlay
    \/ PrimaryFallback
    \/ TryCanvas
    \/ ValidateAttempt
    \/ Exhausted

Spec ==
    Init /\ [][Next]_vars


----------------------------------------------------------------------------
\* Properties of the pipeline (checked under Spec)

Strategies ==
    {"screenshot", "overlay", "rebuild", "canvas"}

\* rasterize-rebuild, direct-overlay, rebuild-copy, then the canvas variant
Rank(s) ==
    CASE s = "screenshot" -> 1
      [] s = "overlay" -> 2
      [] s = "rebuild" -> 3
      [] OTHER -> 4

OpenablePdf(b) ==
    b.hdr /\ StrictLoadOk(b)

PassesThreeChecks(b) ==
    b.len >= MinPdfSize /\ b.hdr /\ StrictLoadOk(b)

\* C1 (as stated): for any input bytes and any areas, redactPDF resolves to
\* a buffer that begins with %PDF and that the document-model loader reloads.
C1_NeverCorrupt ==
    pc = "done" => (settle = "resolved" /\ OpenablePdf(ret))

\* C1 (amended): for any input that itself begins with %PDF and loads in the
\* document-model loader, and any areas, redactPDF resolves to a buffer that
\* begins with %PDF and that the loader reloads.
C1_OpenableInOpenableOut ==
    (pc = "done" /\ OpenablePdf(file)) => (settle = "resolved" /\ OpenablePdf(ret))

C1_Witness ==
    /\ pc = "done"
    /\ OpenablePdf(file)
    /\ Len(areas) > 0
    /\ retAt = 740
    /\ ret.content = "screenshot"

\* C2: when every attempt of redactPDF threw or was rejected by validation,
\* redactPDF resolves to a buffer identical to the original input.
C2_ExhaustionFallback ==
    (pc = "done" /\ attemptIdx > Len(Attempts)) =>
        (settle = "resolved" /\ retAt = 751 /\ ret = file)

C2_Witness ==
    /\ pc = "done"
    /\ attemptIdx > Len(Attempts)
    /\ {"screenshot", "canvas"} \subseteq rejected
    /\ ret = file

\* C3: for a non-empty area list redactPDF ends either SUCCEEDED with the
\* validated output of a strategy that applied the redactions, or EXHAUSTED
\* after every attempt was rejected; the original bytes are returned only in
\* EXHAUSTED.
C3_TwoTerminalOutcomes ==
    (pc = "done" /\ Len(areas) > 0 /\ ~copyOnly) =>
        \/ /\ retAt = 740
           /\ ret.content \in Strategies
           /\ PassesThreeChecks(ret)
        \/ /\ attemptIdx > Len(Attempts)
           /\ ret = file

\* C4: strategies start one at a time in the order rasterize-rebuild,
\* direct-overlay, rebuild-copy; a strategy starts only after every earlier
\* one was rejected; once a strategy's output validates no later strategy
\* starts and that output is the result.
C4_FixedOrderOneAtATime ==
    /\ \A i, j \in DOMAIN started :
         i < j => Rank(started[i]) < Rank(started[j])
    /\ \A i \in DOMAIN started :
         i < Len(started) => started[i] \in rejected
    /\ \A s \in validated :
         /\ s = Last(started)
         /\ s \notin rejected
         /\ pc = "done" => (ret.content = s /\ ret = lastCheck.cand)

C4_Witness ==
    /\ pc = "done"
    /\ started = <<"screenshot", "overlay", "rebuild">>
    /\ validated = {"rebuild"}
    /\ ret.content = "rebuild"

\* C5: a strategy that throws or whose output is rejected never makes
\* redactPDF reject; the failure is caught and the next attempt is tried, so
\* the original bytes are returned only after the last attempt.
C5_StrategyFailuresContained ==
    /\ settle # "rejected"
    /\ (pc = "done" /\ thrown # {}) => retAt \in {740, 751}
    /\ (pc = "done" /\ retAt \notin {691, 740}) => attemptIdx > Len(Attempts)

C5_Witness ==
    /\ pc = "done"
    /\ "screenshot" \in thrown
    /\ settle = "resolved"
    /\ retAt = 740
    /\ ret.content = "overlay"

\* C6: a candidate is accepted iff its length is at least 1000, it begins
\* with %PDF and it reloads; a rejected candidate is never the result and
\* its strategy is recorded as rejected before the next one runs.
C6_AcceptedIffThreeChecks ==
    /\ lastCheck.at # 0 => (lastCheck.ok <=> PassesThreeChecks(lastCheck.cand))
    /\ (pc = "done" /\ retAt = 740) => (lastCheck.ok /\ ret = lastCheck.cand)
    /\ (lastCheck.at # 0 /\ ~lastCheck.ok /\ lastCheck.cand.content # "original") =>
          /\ lastCheck.cand.content \in rejected
          /\ pc = "done" => ret # lastCheck.cand

C6_Witness ==
    /\ pc = "done"
    /\ retAt = 740
    /\ lastCheck.ok
    /\ lastCheck.cand.len = MinPdfSize
    /\ "screenshot" \in rejected
    /\ "screenshot" \notin thrown

\* C7: when the bytes handed to the download are the unmodified original
\* although redaction was requested, the UI does not end showing
\* 'PDF redacted successfully! Download complete.'.
C7_NoSilentUnredacted ==
    (hpc = "finished" /\ Len(areas) > 0 /\ downloaded.content = "original") =>
        successMessage # MsgSuccess


----------------------------------------------------------------------------
\* Display-space to PDF-space mapping of the overlay strategies

\* processRedactions, direct overlay: x, y, rectWidth, rectHeight
OverlayRect(area, pageWidth, pageHeight) ==
    LET x == Max(0, Min(area.x, pageWidth))
        y == Max(0, pageHeight - (area.y + area.height))
        rectWidth == Max(1, Min(area.width, pageWidth - x))
        rectHeight == Max(1, Min(area.height,
                                 area.y + area.height - Max(0, area.y)))
    IN  [x |-> x, y |-> y, width |-> rectWidth, height |-> rectHeight]

FallbackRectNoFlipOfHeight(area, pageWidth, pageHeight) ==
    LET x == Max(0, Min(area.x, pageWidth))
        y == Max(0, pageHeight - area.y)
        rectWidth == Max(1, Min(area.width, pageWidth - x))
        rectHeight == Max(1, Min(area.height,
                                 area.y + area.height - Max(0, area.y)))
    IN  [x |-> x, y |-> y, width |-> rectWidth, height |-> rectHeight]

\* processRedactions, rebuild-copy fallback: x, y, rectWidth, rectHeight
FallbackRect(area, pageWidth, pageHeight) ==
    LET x == Max(0, Min(area.x, pageWidth))
        y == Max(0, pageHeight - (area.y + area.height))
        rectWidth == Max(1, Min(area.width, pageWidth - x))
        rectHeight == Max(1, Min(area.height,
                                 area.y + area.height - Max(0, area.y)))
    IN  [x |-> x, y |-> y, width |-> rectWidth, height |-> rectHeight]

\* Inputs of the mapping: page sizes in points, display scales, and areas in
\* display pixels inside, across and outside the displayed page.
MapPages ==
    { [width |-> 40, height |-> 50], [width |-> 60, height |-> 80] }

MapScales ==
    {1, 2}

MapAreas ==
    { [pageNumber |-> 1, x |-> ax, y |-> ay, width |-> aw, height |-> ah] :
        ax \in {-20, 0, 10, 50, 70}, ay \in {-60, -20, 0, 10, 40, 90},
        aw \in {5, 11, 30, 70}, ah \in {5, 11, 30, 100} }

InitMap ==
    /\ mapPage \in MapPages
    /\ mapScale \in MapScales
    /\ mapArea \in MapAreas
    /\ mapRect = [x |-> 0, y |-> 0, width |-> 0, height |-> 0]
    /\ mapBy = "none"
    /\ mpc = "input"
    /\ DrawIdle
    /\ HookIdle
    /\ render = [pc |-> "off"]
    /\ worker = [pc |-> "off"]
    /\ file = Buf("original", 2000, TRUE, "ok", 1)
    /\ areas = <<mapArea>>
    /\ caller = "api"
    /\ copyOnly = FALSE
    /\ PipeIdle
    /\ FnIdle
    /\ UiIdle

\* direct overlay: the rectangle drawn for one area of a page
MapDirectOverlay ==
    /\ mpc = "input"
    /\ LET r == OverlayRect(mapArea, mapPage.width, mapPage.height)
       IN  IF r.width > 0 /\ r.height > 0
           THEN mapRect' = r /\ mpc' = "drawn"
           ELSE mapRect' = mapRect /\ mpc' = "skipped"
    /\ mapBy' = "overlay"
    /\ UNCHANGED <<mapScale, mapPage, mapArea, drawVars, hookVars, render,
                   worker>>
    /\ UNCHANGED <<pipeVars, fnVars, uiVars>>

\* rebuild-copy: the rectangle drawn for one area of a page
MapRebuildCopy ==
    /\ mpc = "input"
    /\ LET r == FallbackRect(mapArea, mapPage.width, mapPage.height)
       IN  IF r.width > 0 /\ r.height > 0
           THEN mapRect' = r /\ mpc' = "drawn"
           ELSE mapRect' = mapRect /\ mpc' = "skipped"
    /\ mapBy' = "rebuild"
    /\ UNCHANGED <<mapScale, mapPage, mapArea, drawVars, hookVars, render,
                   worker>>
    /\ UNCHANGED <<pipeVars, fnVars, uiVars>>

NextMap ==
    \/ MapDirectOverlay
    \/ MapRebuildCopy

SpecMap ==
    InitMap /\ [][NextMap]_vars

Clamp(v, lo, hi) ==
    Max(lo, Min(v, hi))

\* C8: x_doc = clamp(area.x / displayScale, 0, pageWidth),
\* y_doc = clamp(pageHeight - (area.y + area.height) / displayScale, 0,
\* pageHeight), width_doc = clamp(area.width / displayScale, 1, pageWidth -
\* x_doc), and for an area inside the displayed page height_doc =
\* area.height / displayScale (each equation multiplied by displayScale).
C8_ScaledMapping ==
    mpc = "drawn" =>
        LET s == mapScale
            xs == Clamp(mapArea.x, 0, mapPage.width * s)
        IN  /\ mapRect.x * s = xs
            /\ mapRect.y * s =
                 Clamp(mapPage.height * s - (mapArea.y + mapArea.height), 0,
                       mapPage.height * s)
            /\ mapRect.width * s =
                 Clamp(mapArea.width, s, mapPage.width * s - xs)
            /\ (mapArea.y >= 0 /\ mapArea.y + mapArea.height <= mapPage.height * s)
                 => mapRect.height * s = Max(s, mapArea.height)

\* C9: whatever the area, 0 <= x_doc <= pageWidth, 0 <= y_doc <= pageHeight,
\* width_doc >= 1, height_doc >= 1, width_doc <= pageWidth - x_doc whenever
\* that is at least 1, and y_doc + height_doc <= pageHeight.
C9_RectangleClamped ==
    mpc = "drawn" =>
        /\ 0 <= mapRect.x /\ mapRect.x <= mapPage.width
        /\ 0 <= mapRect.y /\ mapRect.y <= mapPage.height
        /\ mapRect.width >= 1
        /\ mapRect.height >= 1
        /\ (mapPage.width - mapRect.x >= 1) =>
              mapRect.width <= mapPage.width - mapRect.x
        /\ mapRect.y + mapRect.height <= mapPage.height

\* C10: an area drawn with y = 0 maps to a rectangle whose top edge
\* y_doc + height_doc equals pageHeight.
C10_AxisFlipTopEdge ==
    (mpc = "drawn" /\ mapArea.y = 0) =>
        mapRect.y + mapRect.height = mapPage.height

\* the part of the page the user's rectangle lies on, bottom-left origin
OnPageRegion ==
    [x0 |-> Max(0, mapArea.x),
     x1 |-> Min(mapPage.width, mapArea.x + mapArea.width),
     y0 |-> Max(0, mapPage.height - (mapArea.y + mapArea.height)),
     y1 |-> Min(mapPage.height, mapPage.height - mapArea.y)]

\* C25: for an area drawn at display scale 1, the rectangle drawn by either
\* overlay strategy contains the intersection of the user's rectangle
\* (flipped to bottom-left origin) with the page.
C25_CoversSelection ==
    (mpc = "drawn" /\ mapScale = 1
       /\ OnPageRegion.x0 < OnPageRegion.x1 /\ OnPageRegion.y0 < OnPageRegion.y1) =>
        /\ mapRect.x <= OnPageRegion.x0
        /\ mapRect.x + mapRect.width >= OnPageRegion.x1
        /\ mapRect.y <= OnPageRegion.y0
        /\ mapRect.y + mapRect.height >= OnPageRegion.y1

\* a selection that starts left of the page and runs past its bottom edge
C25_Witness ==
    /\ mpc = "drawn"
    /\ mapBy = "rebuild"
    /\ mapScale = 1
    /\ mapPage = [width |-> 40, height |-> 50]
    /\ mapArea.x = -20 /\ mapArea.width = 30
    /\ mapArea.y = 40 /\ mapArea.height = 30
    /\ mapRect = [x |-> 0, y |-> 0, width |-> 30, height |-> 30]

----------------------------------------------------------------------------
\* List functions over redaction areas: the page grouping of the redaction
\* passes, the sort and grouping of the sidebar list, and isPdfEncrypted.

MaxFnLen ==
    3

\* Math.abs(a.y - b.y) > 20
RowTolerance ==
    20

Abs(v) ==
    IF v < 0 THEN -v ELSE v

Front(s) ==
    SubSeq(s, 1, Len(s) - 1)

\* top-left corners of the areas given to the list functions
FnSpots ==
    { [x |-> 30, y |-> 0], [x |-> 20, y |-> 15], [x |-> 10, y |-> 30],
      [x |-> 10, y |-> 0], [x |-> 20, y |-> 30] }

FnPool ==
    { [pageNumber |-> p, x |-> s.x, y |-> s.y, width |-> 30, height |-> 15] :
        p \in 1..MaxPages, s \in FnSpots }

FnLists ==
    UNION { [1..n -> FnPool] : n \in 0..MaxFnLen }

\* area.pageNumber.toString() and parseInt(pageNumberStr, 10)
PageKey(n) ==
    ToString(n)

ParseInt(str) ==
    CHOOSE n \in 0..(MaxPages + 1) : ToString(n) = str

\* if (!groups[key]) groups[key] = []; groups[key].push(area)
PushReversed(groups, key, area) ==
    IF key \in DOMAIN groups
    THEN [groups EXCEPT ![key] = <<area>> \o @]
    ELSE groups @@ (key :> <<area>>)

PushGroup(groups, key, area) ==
    IF key \in DOMAIN groups
    THEN [groups EXCEPT ![key] = Append(@, area)]
    ELSE groups @@ (key :> <<area>>)

\* processRedactions: a Record keyed by the page number's decimal string
RECURSIVE RecordGroupsFrom(_, _)
RecordGroupsFrom(groups, list) ==
    IF list = <<>> THEN groups
    ELSE RecordGroupsFrom(
             PushGroup(groups, PageKey(Head(list).pageNumber), Head(list)),
             Tail(list))

\* Object.entries(redactionsByPage) with parseInt of every key
RecordEntries(list) ==
    LET groups == RecordGroupsFrom(NoGroups, list)
    IN  [p \in {ParseInt(k) : k \in DOMAIN groups} |-> groups[PageKey(p)]]

\* screenshotBasedRedaction: a Map keyed by the page number
RECURSIVE MapGroupsFrom(_, _)
MapGroupsFrom(groups, list) ==
    IF list = <<>> THEN groups
    ELSE MapGroupsFrom(PushGroup(groups, Head(list).pageNumber, Head(list)),
                       Tail(list))

\* RedactionAreasList: sortedAreas.reduce into a Record keyed by page
RECURSIVE AreasByPageFrom(_, _)
AreasByPageFrom(groups, list) ==
    IF list = <<>> THEN groups
    ELSE AreasByPageFrom(PushGroup(groups, Head(list).pageNumber, Head(list)),
                         Tail(list))

\* the comparator handed to Array.prototype.sort
CompareNoBand(a, b) ==
    IF a.pageNumber # b.pageNumber THEN a.pageNumber - b.pageNumber
    ELSE IF a.y # b.y THEN a.y - b.y
    ELSE a.x - b.x

Compare(a, b) ==
    IF a.pageNumber # b.pageNumber THEN a.pageNumber - b.pageNumber
    ELSE IF Abs(a.y - b.y) > RowTolerance THEN a.y - b.y
    ELSE a.x - b.x

\* whether the comparator is a consistent comparator for the elements of the
\* list, as Array.prototype.sort requires for a defined sort order
ConsistentComparator(list) ==
    LET S == {list[i] : i \in DOMAIN list}
    IN  \A a \in S, b \in S, c \in S :
            /\ (Compare(a, b) = 0 /\ Compare(b, c) = 0) => Compare(a, c) = 0
            /\ (Compare(a, b) < 0 /\ Compare(b, c) < 0) => Compare(a, c) < 0
            /\ (Compare(a, b) > 0 /\ Compare(b, c) > 0) => Compare(a, c) > 0

\* a stable sort under a consistent comparator
RECURSIVE InsertSorted(_, _)
InsertSorted(s, e) ==
    IF s = <<>> THEN <<e>>
    ELSE IF Compare(Last(s), e) > 0
         THEN Append(InsertSorted(Front(s), e), Last(s))
         ELSE Append(s, e)

RECURSIVE StableSort(_)
StableSort(list) ==
    IF list = <<>> THEN <<>>
    ELSE InsertSorted(StableSort(Front(list)), Last(list))

OrderingsOf(list) ==
    LET n == Len(list)
    IN  { [i \in 1..n |-> list[f[i]]] :
            f \in {g \in [1..n -> 1..n] : \A i, j \in 1..n : g[i] = g[j] => i = j} }

\* [...redactionAreas].sort(comparator): the stable sorted order when the
\* comparator is consistent, an implementation-defined order otherwise
SortOutcomes(list) ==
    IF ConsistentComparator(list) THEN {StableSort(list)} ELSE OrderingsOf(list)

\* error.message as the pieces the includes() calls can find in it
ErrorMessages ==
    { <<"Input document to PDFDocument.load is ", "encrypt", "ed">>,
      <<"Incorrect ", "password">>,
      <<"Insufficient ", "permission", "s">>,
      <<"Failed to parse PDF document">>,
      <<"No PDF header found">>,
      <<"Encrypted">> }

LoadOutcomes ==
    {[kind |-> "ok", message |-> <<>>]}
      \cup {[kind |-> "error", message |-> m] : m \in ErrorMessages}
      \cup {[kind |-> "nonError", message |-> m] : m \in ErrorMessages}

Includes(message, piece) ==
    \E i \in DOMAIN message : message[i] = piece

\* isPdfEncrypted: the settlement of the promise it returns
IsPdfEncryptedAnyError(load) ==
    [settled |-> "resolved", value |-> load.kind # "ok"]

IsPdfEncrypted(load) ==
    IF load.kind = "ok" THEN [settled |-> "resolved", value |-> FALSE]
    ELSE IF /\ load.kind = "error"
            /\ \/ Includes(load.message, "encrypt")
               \/ Includes(load.message, "password")
               \/ Includes(load.message, "permission")
         THEN [settled |-> "resolved", value |-> TRUE]
         ELSE [settled |-> "resolved", value |-> FALSE]

InitFn ==
    /\ \/ fnAreas \in FnLists /\ fnLoad = [kind |-> "ok", message |-> <<>>]
       \/ fnAreas = <<>> /\ fnLoad \in LoadOutcomes
    /\ fpc = "ready"
    /\ fnIn = <<>>
    /\ fnGroups = NoGroups
    /\ fnSorted = <<>>
    /\ fnEnc = [settled |-> "pending", value |-> FALSE]
    /\ fnBy = "none"
    /\ file = Buf("original", 2000, TRUE, "ok", 1)
    /\ areas = fnAreas
    /\ caller = "api"
    /\ copyOnly = FALSE
    /\ PipeIdle
    /\ MapIdle
    /\ UiIdle

FnGroupRecord ==
    /\ fpc = "ready"
    /\ fnIn' = fnAreas
    /\ fnGroups' = RecordEntries(fnAreas)
    /\ fnBy' = "processRedactions"
    /\ fpc' = "grouped"
    /\ UNCHANGED <<fnAreas, fnSorted, fnLoad, fnEnc, pipeVars, mapVars, uiVars>>

FnGroupMap ==
    /\ fpc = "ready"
    /\ fnIn' = fnAreas
    /\ fnGroups' = MapGroupsFrom(NoGroups, fnAreas)
    /\ fnBy' = "screenshotBasedRedaction"
    /\ fpc' = "grouped"
    /\ UNCHANGED <<fnAreas, fnSorted, fnLoad, fnEnc, pipeVars, mapVars, uiVars>>

FnSort ==
    /\ fpc = "ready"
    /\ fnSorted' \in SortOutcomes(fnAreas)
    /\ fnBy' = "sortedAreas"
    /\ fpc' = "sorted"
    /\ UNCHANGED <<fnAreas, fnIn, fnGroups, fnLoad, fnEnc, pipeVars, mapVars, uiVars>>

FnAreasByPage ==
    /\ fpc = "sorted"
    /\ fnIn' = fnSorted
    /\ fnGroups' = AreasByPageFrom(NoGroups, fnSorted)
    /\ fnBy' = "areasByPage"
    /\ fpc' = "grouped"
    /\ UNCHANGED <<fnAreas, fnSorted, fnLoad, fnEnc, pipeVars, mapVars, uiVars>>

FnIsPdfEncrypted ==
    /\ fpc = "ready"
    /\ fnEnc' = IsPdfEncrypted(fnLoad)
    /\ fnBy' = "isPdfEncrypted"
    /\ fpc' = "checked"
    /\ UNCHANGED <<fnAreas, fnIn, fnGroups, fnSorted, fnLoad, pipeVars, mapVars, uiVars>>

NextFn ==
    \/ FnGroupRecord
    \/ FnGroupMap
    \/ FnSort
    \/ FnAreasByPage
    \/ FnIsPdfEncrypted

SpecFn ==
    InitFn /\ [][NextFn]_vars

\* ---- claims about the list functions ----

PagesOf(list) ==
    {list[i].pageNumber : i \in DOMAIN list}

OnPage(list, p) ==
    SelectSeq(list, LAMBDA a : a.pageNumber = p)

\* C12: grouping a list of areas by page yields exactly one group per page
\* number present in the list, and the group of a page holds exactly the
\* list's areas of that page, each as often as the list holds it and in the
\* list's order (nothing dropped, merged, duplicated or reordered).
C12_GroupingCorrect ==
    fpc = "grouped" =>
        /\ DOMAIN fnGroups = PagesOf(fnIn)
        /\ \A p \in DOMAIN fnGroups : fnGroups[p] = OnPage(fnIn, p)

C12_Witness ==
    /\ fpc = "grouped"
    /\ fnBy = "processRedactions"
    /\ Len(fnIn) = 3
    /\ fnIn[1].pageNumber = 2 /\ fnIn[2].pageNumber = 1 /\ fnIn[3].pageNumber = 2
    /\ fnIn[1] # fnIn[3]
    /\ DOMAIN fnGroups = {1, 2}
    /\ fnGroups[2] = <<fnIn[1], fnIn[3]>>

\* C14: isPdfEncrypted never rejects; it resolves with true exactly when the
\* strict load threw an Error whose message contains "encrypt", "password"
\* or "permission", and with false when the load succeeded or failed in any
\* other way.
C14_EncryptionDetection ==
    fpc = "checked" =>
        /\ fnEnc.settled = "resolved"
        /\ fnEnc.value =
              (/\ fnLoad.kind = "error"
               /\ \E i \in DOMAIN fnLoad.message :
                      fnLoad.message[i] \in {"encrypt", "password", "permission"})

C14_Witness ==
    /\ fpc = "checked"
    /\ fnLoad.kind = "error"
    /\ fnLoad.message = <<"Failed to parse PDF document">>
    /\ fnEnc = [settled |-> "resolved", value |-> FALSE]

Count(list, a) ==
    Cardinality({i \in DOMAIN list : list[i] = a})

IsPermutationOf(s, t) ==
    /\ Len(s) = Len(t)
    /\ \A i \in DOMAIN t : Count(s, t[i]) = Count(t, t[i])

\* the reading-order rule of the sidebar: a has to come before b
ComesFirst(a, b) ==
    \/ a.pageNumber < b.pageNumber
    \/ /\ a.pageNumber = b.pageNumber
       /\ \/ Abs(a.y - b.y) > 20 /\ a.y < b.y
          \/ Abs(a.y - b.y) <= 20 /\ a.x < b.x

Tied(a, b) ==
    ~ComesFirst(a, b) /\ ~ComesFirst(b, a)

\* the rule orders the areas of the list without a cycle
RuleConsistent(list) ==
    LET S == {list[i] : i \in DOMAIN list}
    IN  \A a \in S, b \in S, c \in S :
            /\ (ComesFirst(a, b) /\ ComesFirst(b, c)) => ComesFirst(a, c)
            /\ (Tied(a, b) /\ Tied(b, c)) => Tied(a, c)

InReadingOrder(list) ==
    \A i \in DOMAIN list, j \in DOMAIN list :
        i < j => ~ComesFirst(list[j], list[i])

C17_PageCountPreserved ==
    (/\ pc = "validate"
     /\ result # Threw
     /\ result.content \in {"screenshot", "canvas"})
        => result.pages = file.pages

----------------------------------------------------------------------------
\* The page component tree: Home (page.tsx), PDFViewer, usePdfLoader,
\* PDFCanvas and the sidebar list.  A File is abstracted to its identity, its
\* page count and whether it is encrypted; a stored area carries the identity
\* of its object (ref).  Loading, unlocking and redacting are asynchronous:
\* each is started by one action and settled by another, and the environment
\* chooses the outcome.

MaxFiles ==
    2

MaxRefs ==
    2

MaxInFlight ==
    2

\* REDACTION_SETTINGS.minSelectionSize
MinSelectionSize ==
    10

\* canvas coordinates a pointer event can report
Points ==
    { [x |-> 0, y |-> 30], [x |-> 20, y |-> 10], [x |-> 20, y |-> 20] }

MsgUnlocked ==
    "PDF successfully unlocked! You can now apply redactions."

MsgUnlockFailed ==
    "Failed to unlock the PDF document."

pipeRest ==
    <<file, areas, copyOnly, caller, hpc, downloaded, pc, attemptIdx, ppc, result,
      ret, retAt, settle, started, rejected, thrown, validated, lastCheck>>

homeVars ==
    <<uploadedFile, homeAreas, isProcessing, error, successMessage>>

viewerVars ==
    <<viewerInst, currentPage, viewerAreas, viewerProcessing, isUnlocking,
      unlockError>>

loaderVars ==
    <<pdfDocument, totalPages, isLoading, isPdfEncrypted, loadError,
      currentFileRef, loads>>

canvasVars ==
    <<isDrawing, startPos, currentArea>>

jobVars ==
    <<applyTimers, inFlight, unlockJobs>>

histVars ==
    <<lastRemoved, lastUnlock>>

uiRest ==
    <<upc, pipeRest, mapVars, fnVars>>

InitUI ==
    /\ upc = "on"
    /\ UiFresh
    /\ file = Buf("original", 2000, TRUE, "ok", 1)
    /\ areas = <<>>
    /\ caller = "ui"
    /\ copyOnly = FALSE
    /\ PipeIdle
    /\ MapIdle
    /\ FnIdle

\* {!isLoading && pdfDocument && (...)}: toolbar, canvas and sidebar are rendered
ContentShown ==
    /\ uploadedFile # NoFile
    /\ ~isLoading
    /\ pdfDocument # NoFile

\* enableDrawing={!isProcessing && !isPdfEncrypted}
EnableDrawing ==
    ~viewerProcessing /\ ~isPdfEncrypted

\* whether the PDFViewer instance that started a job is still mounted
Mounted(inst) ==
    uploadedFile # NoFile /\ inst = viewerInst

\* PDFCanvas is (re)mounted or unmounted: its useState values start over
CanvasReset ==
    /\ isDrawing' = FALSE
    /\ startPos' = NoPos
    /\ currentArea' = NoArea

\* the file effect of usePdfLoader for a file that is not the current one
StartLoad(f) ==
    /\ isLoading' = TRUE
    /\ loadError' = FALSE
    /\ isPdfEncrypted' = FALSE
    /\ currentFileRef' = f

\* a PDFViewer is mounted for file f: initial state, then the file effect
MountViewer(f) ==
    /\ viewerInst' = viewerInst + 1
    /\ currentPage' = 1
    /\ viewerAreas' = <<>>
    /\ viewerProcessing' = FALSE
    /\ isUnlocking' = FALSE
    /\ unlockError' = MsgNull
    /\ pdfDocument' = NoFile
    /\ totalPages' = 0
    /\ StartLoad(f)
    /\ loads' = {[file |-> f, stage |-> "check"]}
    /\ CanvasReset

\* what handleFileUpload and handleFileUpdate leave in Home's redactionAreas
HomeAreasKept(list) ==
    list

HomeAreasOnNewFile(list) ==
    <<>>

\* what the document effect of PDFViewer leaves in its redactionAreas
ViewerAreasOnDocument(list) ==
    <<>>

\* what a finished handleRedact leaves in Home's redactionAreas: it never
\* calls setRedactionAreas
HomeAreasCleared(list) ==
    <<>>

HomeAreasAfterRedact(list) ==
    list

\* PDFUploader hands a file to Home.handleFileUpload; PDFViewer mounts
UploadFile ==
    /\ upc = "on"
    /\ uploadedFile = NoFile
    /\ nextFile <= MaxFiles
    /\ \E p \in 1..MaxPages, e \in BOOLEAN :
         LET f == [id |-> nextFile, pages |-> p, encrypted |-> e,
                   unlocked |-> FALSE]
         IN  /\ uploadedFile' = f
             /\ MountViewer(f)
    /\ homeAreas' = HomeAreasOnNewFile(homeAreas)
    /\ error' = MsgNull
    /\ successMessage' = MsgNull
    /\ nextFile' = nextFile + 1
    /\ UNCHANGED <<isProcessing, jobVars, nextRef, histVars, uiRest>>

\* the "Upload a different file" button: setUploadedFile(null); PDFViewer unmounts
UploadDifferentFile ==
    /\ upc = "on"
    /\ uploadedFile # NoFile
    /\ ~isProcessing
    /\ uploadedFile' = NoFile
    /\ currentPage' = 1
    /\ viewerAreas' = <<>>
    /\ viewerProcessing' = FALSE
    /\ isUnlocking' = FALSE
    /\ unlockError' = MsgNull
    /\ pdfDocument' = NoFile
    /\ totalPages' = 0
    /\ isLoading' = FALSE
    /\ isPdfEncrypted' = FALSE
    /\ loadError' = FALSE
    /\ currentFileRef' = NoFile
    /\ loads' = {}
    /\ CanvasReset
    /\ UNCHANGED <<homeAreas, isProcessing, error, successMessage, viewerInst,
                   jobVars, nextRef, nextFile, histVars, uiRest>>

\* loadPdf up to setIsPdfEncrypted(isEncrypted), which no file check guards
LoadCheck ==
    /\ upc = "on"
    /\ \E job \in loads :
         /\ job.stage = "check"
         /\ \E det \in (IF job.file.encrypted THEN BOOLEAN ELSE {FALSE}) :
              /\ isPdfEncrypted' = det
              /\ loads' = (loads \ {job}) \cup {[job EXCEPT !.stage = "load"]}
    /\ UNCHANGED <<homeVars, viewerVars, pdfDocument, totalPages, isLoading,
                   loadError, currentFileRef, canvasVars, jobVars, nextRef,
                   nextFile, histVars, uiRest>>

\* loadPdf from loadingTask.promise on: the guarded state updates, and the
\* document effect of PDFViewer when a new document is set
LoadFinish ==
    /\ upc = "on"
    /\ \E job \in loads :
         /\ job.stage = "load"
         /\ loads' = loads \ {job}
         /\ \E ok \in BOOLEAN, saysEncrypted \in BOOLEAN :
              IF currentFileRef # job.file
              THEN /\ ok /\ ~saysEncrypted
                   /\ UNCHANGED <<pdfDocument, totalPages, isLoading, isPdfEncrypted,
                                  loadError, currentPage, viewerAreas, canvasVars>>
              ELSE IF ok
              THEN /\ ~saysEncrypted
                   /\ pdfDocument' = job.file
                   /\ totalPages' = job.file.pages
                   /\ isLoading' = FALSE
                   /\ currentPage' = 1
                   /\ viewerAreas' = ViewerAreasOnDocument(viewerAreas)
                   /\ CanvasReset
                   /\ UNCHANGED <<isPdfEncrypted, loadError>>
              ELSE /\ saysEncrypted => job.file.encrypted
                   /\ isPdfEncrypted' = (saysEncrypted \/ isPdfEncrypted)
                   /\ loadError' = TRUE
                   /\ isLoading' = FALSE
                   /\ CanvasReset
                   /\ UNCHANGED <<pdfDocument, totalPages, currentPage, viewerAreas>>
    /\ UNCHANGED <<homeVars, viewerInst, viewerProcessing, isUnlocking, unlockError,
                   currentFileRef, jobVars, nextRef, nextFile, histVars, uiRest>>

\* PDFPageNavigation: the page it hands to onPageChange
CanNavigateNoUpper(p, total) ==
    p >= 1

CanNavigate(p, total) ==
    p >= 1 /\ p <= total

Navigate ==
    /\ upc = "on"
    /\ ContentShown
    /\ \E p \in 0..(MaxPages + 1) :
         /\ CanNavigate(p, totalPages)
         /\ p # currentPage
         /\ currentPage' = p
    /\ UNCHANGED <<homeVars, viewerInst, viewerAreas, viewerProcessing, isUnlocking,
                   unlockError, loaderVars, canvasVars, jobVars, nextRef, nextFile,
                   histVars, uiRest>>

\* PDFCanvas.handleMouseDown / handleTouchStart
MouseDown ==
    /\ upc = "on"
    /\ ContentShown
    /\ EnableDrawing
    /\ nextRef <= MaxRefs
    /\ \E pt \in Points :
         /\ startPos' = pt
         /\ currentArea' = [pageNumber |-> currentPage, x |-> pt.x, y |-> pt.y,
                            width |-> 0, height |-> 0]
    /\ isDrawing' = TRUE
    /\ UNCHANGED <<homeVars, viewerVars, loaderVars, jobVars, nextRef, nextFile,
                   histVars, uiRest>>

\* PDFCanvas.handleMouseMove / handleTouchMove
MouseMove ==
    /\ upc = "on"
    /\ ContentShown
    /\ isDrawing
    /\ startPos # NoPos
    /\ \E pt \in Points :
         currentArea' = [pageNumber |-> currentPage, x |-> startPos.x,
                         y |-> startPos.y, width |-> pt.x - startPos.x,
                         height |-> pt.y - startPos.y]
    /\ UNCHANGED <<homeVars, viewerVars, loaderVars, isDrawing, startPos, jobVars,
                   nextRef, nextFile, histVars, uiRest>>

\* the size test of handleMouseUp
AcceptsSelectionWidthOnly(a) ==
    Abs(a.width) > MinSelectionSize

AcceptsSelection(a) ==
    Abs(a.width) > MinSelectionSize /\ Abs(a.height) > MinSelectionSize

\* normalizedArea of handleMouseUp, as the object handed to the store
NormalizedArea(a, ref) ==
    [ref |-> ref,
     pageNumber |-> a.pageNumber,
     x |-> IF a.width < 0 THEN a.x + a.width ELSE a.x,
     y |-> IF a.height < 0 THEN a.y + a.height ELSE a.y,
     width |-> Abs(a.width),
     height |-> Abs(a.height)]

\* PDFCanvas.handleMouseUp (also onMouseLeave and onTouchEnd) with
\* PDFViewer.handleRedactionAreaCreated and Home.handleSelectionChange
MouseUp ==
    /\ upc = "on"
    /\ ContentShown
    /\ isDrawing
    /\ IF currentArea # NoArea /\ AcceptsSelection(currentArea)
       THEN LET updatedAreas ==
                    Append(viewerAreas, NormalizedArea(currentArea, nextRef))
            IN  /\ viewerAreas' = updatedAreas
                /\ homeAreas' = updatedAreas
                /\ nextRef' = nextRef + 1
       ELSE UNCHANGED <<viewerAreas, homeAreas, nextRef>>
    /\ isDrawing' = FALSE
    /\ currentArea' = NoArea
    /\ UNCHANGED <<uploadedFile, isProcessing, error, successMessage, viewerInst,
                   currentPage, viewerProcessing, isUnlocking, unlockError,
                   loaderVars, startPos, jobVars, nextFile, histVars, uiRest>>

\* redactionAreas.indexOf(area): the first position holding that very object
IndexOfByValue(list, item) ==
    CHOOSE i \in DOMAIN list :
        /\ [list[i] EXCEPT !.ref = 0] = [item EXCEPT !.ref = 0]
        /\ \A j \in 1..(i - 1) : [list[j] EXCEPT !.ref = 0] # [item EXCEPT !.ref = 0]

IndexOf(list, item) ==
    CHOOSE i \in DOMAIN list :
        /\ list[i].ref = item.ref
        /\ \A j \in 1..(i - 1) : list[j].ref # item.ref

\* redactionAreas.filter((_, i) => i !== index)
WithoutIndex(list, index) ==
    SubSeq(list, 1, index - 1) \o SubSeq(list, index + 1, Len(list))

\* the items the sidebar shows: the sorted areas of the current page
ShownItems ==
    {viewerAreas[i] : i \in {j \in DOMAIN viewerAreas :
                                 viewerAreas[j].pageNumber = currentPage}}

\* the remove button of a shown item: onRemove(redactionAreas.indexOf(area)),
\* PDFViewer's onRemoveArea and Home.handleSelectionChange
RemoveArea ==
    /\ upc = "on"
    /\ ContentShown
    /\ \E item \in ShownItems :
         LET updatedAreas == WithoutIndex(viewerAreas, IndexOf(viewerAreas, item))
         IN  /\ viewerAreas' = updatedAreas
             /\ homeAreas' = updatedAreas
             /\ lastRemoved' = item.ref
    /\ UNCHANGED <<uploadedFile, isProcessing, error, successMessage, viewerInst,
                   currentPage, viewerProcessing, isUnlocking, unlockError,
                   loaderVars, canvasVars, jobVars, nextRef, nextFile, lastUnlock,
                   uiRest>>

\* the Apply button: setIsProcessing(true) and a 100 ms timer that holds the
\* handleRedact of the render the click happened in
\* disabled={isProcessing || redactionAreas.length === 0 || isPdfEncrypted}
ApplyDisabled ==
    viewerProcessing \/ Len(viewerAreas) = 0 \/ isPdfEncrypted

ClickApply ==
    /\ upc = "on"
    /\ ContentShown
    /\ ~ApplyDisabled
    /\ inFlight + Cardinality(applyTimers) < MaxInFlight
    /\ viewerProcessing' = TRUE
    /\ applyTimers' = applyTimers \cup
           {[inst |-> viewerInst, file |-> uploadedFile, areas |-> homeAreas]}
    /\ UNCHANGED <<homeVars, viewerInst, currentPage, viewerAreas, isUnlocking,
                   unlockError, loaderVars, canvasVars, inFlight, unlockJobs,
                   nextRef, nextFile, histVars, uiRest>>

\* the timer fires: handleRedact up to its own 200 ms timer, then the
\* viewer's setIsProcessing(false)
ApplyTimerFires ==
    /\ upc = "on"
    /\ \E t \in applyTimers :
         /\ applyTimers' = applyTimers \ {t}
         /\ IF t.file = NoFile \/ Len(t.areas) = 0
            THEN /\ error' = MsgSelect
                 /\ UNCHANGED <<isProcessing, successMessage, inFlight>>
            ELSE /\ isProcessing' = TRUE
                 /\ error' = MsgNull
                 /\ successMessage' = MsgNull
                 /\ inFlight' = inFlight + 1
         /\ viewerProcessing' = IF Mounted(t.inst) THEN FALSE ELSE viewerProcessing
    /\ UNCHANGED <<uploadedFile, homeAreas, viewerInst, currentPage, viewerAreas,
                   isUnlocking, unlockError, loaderVars, canvasVars, unlockJobs,
                   nextRef, nextFile, histVars, uiRest>>

\* downloadRedactedPDF settles inside handleRedact; finally setIsProcessing(false)
RedactSettle ==
    /\ upc = "on"
    /\ inFlight > 0
    /\ inFlight' = inFlight - 1
    /\ \/ successMessage' = MsgSuccess /\ error' = error
       \/ error' = MsgRedactionError /\ successMessage' = successMessage
    /\ isProcessing' = FALSE
    /\ homeAreas' = HomeAreasAfterRedact(homeAreas)
    /\ UNCHANGED <<uploadedFile, viewerVars, loaderVars, canvasVars, applyTimers,
                   unlockJobs, nextRef, nextFile, histVars, uiRest>>

\* where unlockPdf can fail: reading, loading, copying page i, saving
UnlockFailPoints(f) ==
    {[step |-> s, page |-> 0] : s \in {"none", "read", "load", "save"}}
      \cup {[step |-> "copy", page |-> i] : i \in 1..f.pages}

\* unlockPdf: the settlement of the promise it returns
UnlockPdfSkipsPage(f, fail) ==
    IF fail.step \in {"none", "copy"}
    THEN [settled |-> "resolved",
          pages |-> IF fail.step = "copy" THEN f.pages - 1 ELSE f.pages]
    ELSE [settled |-> "rejected", pages |-> 0]

UnlockPdf(f, fail) ==
    IF fail.step = "none"
    THEN [settled |-> "resolved", pages |-> f.pages]
    ELSE [settled |-> "rejected", pages |-> 0]

\* the unlock button: handleUnlockPdf up to await unlockPdf(file)
ClickUnlock ==
    /\ upc = "on"
    /\ uploadedFile # NoFile
    /\ isPdfEncrypted
    /\ ~isUnlocking
    /\ nextFile + Cardinality(unlockJobs) <= MaxFiles
    /\ isUnlocking' = TRUE
    /\ unlockError' = MsgNull
    /\ unlockJobs' = unlockJobs \cup {[file |-> uploadedFile, inst |-> viewerInst]}
    /\ UNCHANGED <<homeVars, viewerInst, currentPage, viewerAreas, viewerProcessing,
                   loaderVars, canvasVars, applyTimers, inFlight, nextRef, nextFile,
                   histVars, uiRest>>

\* unlockPdf settles: the rest of handleUnlockPdf, Home.handleFileUpdate and
\* the file effect of usePdfLoader
UnlockSettle ==
    /\ upc = "on"
    /\ \E job \in unlockJobs :
       \E fail \in UnlockFailPoints(job.file) :
         LET out == UnlockPdf(job.file, fail)
             unlockedFile == [id |-> nextFile, pages |-> out.pages,
                              encrypted |-> FALSE, unlocked |-> TRUE]
         IN  /\ unlockJobs' = unlockJobs \ {job}
             /\ lastUnlock' = IF fail.step = "none" THEN "none" ELSE "failed"
             /\ IF out.settled = "resolved"
                THEN /\ uploadedFile' = unlockedFile
                     /\ homeAreas' = HomeAreasOnNewFile(homeAreas)
                     /\ error' = MsgNull
                     /\ successMessage' = MsgUnlocked
                     /\ nextFile' = nextFile + 1
                     /\ IF uploadedFile = NoFile
                        THEN MountViewer(unlockedFile)
                        ELSE /\ StartLoad(unlockedFile)
                             /\ loads' = loads \cup
                                  {[file |-> unlockedFile, stage |-> "check"]}
                             /\ CanvasReset
                             /\ isUnlocking' =
                                  IF Mounted(job.inst) THEN FALSE ELSE isUnlocking
                             /\ UNCHANGED <<viewerInst, currentPage, viewerAreas,
                                            viewerProcessing, unlockError,
                                            pdfDocument, totalPages>>
                ELSE /\ IF Mounted(job.inst)
                        THEN unlockError' = MsgUnlockFailed /\ isUnlocking' = FALSE
                        ELSE UNCHANGED <<unlockError, isUnlocking>>
                     /\ UNCHANGED <<uploadedFile, homeAreas, error, successMessage,
                                    nextFile, viewerInst, currentPage, viewerAreas,
                                    viewerProcessing, loaderVars, canvasVars>>
    /\ UNCHANGED <<isProcessing, applyTimers, inFlight, nextRef, lastRemoved, uiRest>>

\* The life of the area store: files come and go, pages are turned, areas
\* are drawn and removed, encrypted files are unlocked.  The Apply button is
\* not pressed.
NextStore ==
    \/ UploadFile
    \/ UploadDifferentFile
    \/ LoadCheck
    \/ LoadFinish
    \/ Navigate
    \/ MouseDown
    \/ MouseMove
    \/ MouseUp
    \/ RemoveArea
    \/ ClickUnlock
    \/ UnlockSettle

SpecStore ==
    InitUI /\ [][NextStore]_vars

\* Applying redactions: files are uploaded, areas are drawn and removed, and
\* the Apply button is pressed.  Pages are not turned and nothing is unlocked.
NextApply ==
    \/ UploadFile
    \/ UploadDifferentFile
    \/ LoadCheck
    \/ LoadFinish
    \/ MouseDown
    \/ MouseMove
    \/ MouseUp
    \/ RemoveArea
    \/ ClickApply
    \/ ApplyTimerFires
    \/ RedactSettle

SpecApply ==
    InitUI /\ [][NextApply]_vars

\* ---- claims about the area store ----

StoredAreas ==
    {viewerAreas[i] : i \in DOMAIN viewerAreas}
      \cup {homeAreas[i] : i \in DOMAIN homeAreas}

\* a step in which a drag gesture ends on the canvas
GestureEnds ==
    isDrawing /\ ~isDrawing' /\ uploadedFile' = uploadedFile

\* the gesture that ends is large enough in both directions
GestureLargeEnough ==
    Abs(currentArea.width) > 10 /\ Abs(currentArea.height) > 10

\* C11: every stored area is wider and higher than 10; a gesture that ends
\* with |width| <= 10 or |height| <= 10 leaves both lists as they were, and
\* any other gesture appends the dragged rectangle with (x, y) its top-left
\* corner and its extent as width and height.
C11_MinSizeNormalized ==
    /\ [](\A a \in StoredAreas : a.width > 10 /\ a.height > 10)
    /\ [][GestureEnds =>
            IF GestureLargeEnough
            THEN /\ Len(viewerAreas') = Len(viewerAreas) + 1
                 /\ LET new == viewerAreas'[Len(viewerAreas')]
                        x1 == currentArea.x
                        x2 == currentArea.x + currentArea.width
                        y1 == currentArea.y
                        y2 == currentArea.y + currentArea.height
                    IN  /\ new.x = Min(x1, x2)
                        /\ new.y = Min(y1, y2)
                        /\ new.width = Max(x1, x2) - Min(x1, x2)
                        /\ new.height = Max(y1, y2) - Min(y1, y2)
            ELSE viewerAreas' = viewerAreas /\ homeAreas' = homeAreas]_vars

C11_Witness ==
    /\ ~isDrawing
    /\ startPos = [x |-> 20, y |-> 10]
    /\ nextRef = 2
    /\ Len(viewerAreas) = 1
    /\ viewerAreas[1].x = 0 /\ viewerAreas[1].y = 10
    /\ viewerAreas[1].width = 20 /\ viewerAreas[1].height = 20
    /\ homeAreas = viewerAreas

\* a step in which unlockPdf settles
UnlockSettles ==
    unlockJobs' # unlockJobs /\ unlockJobs' \subseteq unlockJobs

\* C13: when a step of unlockPdf (read, load, copy of a page, save) fails,
\* the current file is not replaced and the viewer that asked, if still
\* mounted, shows the unlock error; the file is replaced only by a complete
\* unlocked copy after an unlock in which no step failed.
C13_UnlockFailuresExplicit ==
    [][UnlockSettles =>
         IF lastUnlock' = "failed"
         THEN /\ uploadedFile' = uploadedFile
              /\ nextFile' = nextFile
              /\ \A job \in unlockJobs \ unlockJobs' :
                     Mounted(job.inst) =>
                         unlockError' = "Failed to unlock the PDF document."
         ELSE /\ uploadedFile'.unlocked
              /\ \E job \in unlockJobs \ unlockJobs' :
                     uploadedFile'.pages = job.file.pages]_vars

C13_Witness ==
    /\ lastUnlock = "failed"
    /\ unlockError = "Failed to unlock the PDF document."
    /\ ~isUnlocking
    /\ uploadedFile.encrypted
    /\ unlockJobs = {}

\* C15: in the step in which a new document finishes loading, the viewer's
\* list and the parent's list are both empty afterwards.
C15_ClearedOnNewDocument ==
    [][(pdfDocument' # pdfDocument /\ pdfDocument' # NoFile) =>
          (viewerAreas' = <<>> /\ homeAreas' = <<>>)]_vars

C15_Witness ==
    /\ pdfDocument.id = 2
    /\ nextRef > 1
    /\ lastRemoved = 0
    /\ viewerAreas = <<>>
    /\ homeAreas = <<>>

\* a step in which handleRedact finishes
RedactFinishes ==
    inFlight' < inFlight

\* C16 as stated: when handleRedact finishes, both lists are empty.
C16_ClearedAfterRedact ==
    [][RedactFinishes => (viewerAreas' = <<>> /\ homeAreas' = <<>>)]_vars

\* C16 amended: when handleRedact finishes, both lists are what they were
\* just before.
C16_KeptAfterRedact ==
    [][RedactFinishes =>
          (viewerAreas' = viewerAreas /\ homeAreas' = homeAreas)]_vars

C16_Witness ==
    /\ successMessage = MsgSuccess
    /\ inFlight = 0
    /\ ~isProcessing
    /\ Len(viewerAreas) > 0
    /\ homeAreas = viewerAreas

\* C19: an accepted gesture appends exactly one element and leaves the
\* others in place, whatever the store already holds; pressing the remove
\* button of an item removes that very element and leaves all others, equal
\* ones included, in their order, in both lists.
C19_NoMergeExactRemoval ==
    [][/\ (GestureEnds /\ GestureLargeEnough) =>
             /\ Len(viewerAreas') = Len(viewerAreas) + 1
             /\ SubSeq(viewerAreas', 1, Len(viewerAreas)) = viewerAreas
             /\ homeAreas' = viewerAreas'
       /\ (lastRemoved' # lastRemoved) =>
             \E i \in DOMAIN viewerAreas :
                 /\ viewerAreas[i].ref = lastRemoved'
                 /\ Len(viewerAreas') = Len(viewerAreas) - 1
                 /\ \A j \in DOMAIN viewerAreas' :
                        viewerAreas'[j] = viewerAreas[IF j < i THEN j ELSE j + 1]
                 /\ homeAreas' = viewerAreas']_vars

C19_Witness ==
    /\ totalPages = 1
    /\ lastRemoved = 2
    /\ Len(viewerAreas) = 1
    /\ viewerAreas[1].ref = 1
    /\ homeAreas = viewerAreas

\* C20: while a document is loaded, every area of the viewer's list and of
\* the parent's list is on one of its pages, and totalPages is its page count.
C20_PageNumberInRange ==
    pdfDocument # NoFile =>
        /\ totalPages = pdfDocument.pages
        /\ \A a \in StoredAreas : 1 <= a.pageNumber /\ a.pageNumber <= totalPages

C20_Witness ==
    /\ pdfDocument.id = 2
    /\ totalPages = 2
    /\ nextRef = 3
    /\ Len(viewerAreas) = 1
    /\ viewerAreas[1].pageNumber = 2
    /\ currentPage = 1

\* ---- further claims about the pipeline ----

\* C21: a redactPDF call with an empty area list or with copyOnly resolves
\* with exactly the bytes of the input, starts no strategy and validates
\* nothing.
C21_ShortCircuit ==
    (pc = "done" /\ (copyOnly \/ Len(areas) = 0)) =>
        /\ settle = "resolved"
        /\ ret = file
        /\ started = <<>>
        /\ result = NoBuf
        /\ lastCheck.at = 0

C21_Witness ==
    /\ pc = "done"
    /\ Len(areas) = 0
    /\ ~copyOnly
    /\ file.kind = "corrupt"
    /\ ret = file

----------------------------------------------------------------------------
\* The redaction loops of the two overlay strategies of processRedactions:
\* for every page key of the grouping, for every area of the page,
\* drawRectangle; then save.  A drawRectangle call returns or throws.

MaxDrawLen ==
    3

\* areas given to the loops: page numbers below, inside and above the
\* document, the position in the list telling areas of one page apart
DrawLists ==
    UNION { { [i \in 1..n |->
                 [pageNumber |-> ps[i], x |-> 10 * i, y |-> 10,
                  width |-> 20, height |-> 20]] : ps \in [1..n -> 0..(MaxPages + 1)] } :
            n \in 1..MaxDrawLen }

\* Object.entries(redactionsByPage): integer keys in ascending order, the
\* areas of a key in insertion order
RECURSIVE EntriesFrom(_, _)
EntriesFrom(groups, p) ==
    IF p > MaxPages + 1 THEN <<>>
    ELSE (IF p \in DOMAIN groups THEN groups[p] ELSE <<>>)
             \o EntriesFrom(groups, p + 1)

EntriesInOrder(list) ==
    EntriesFrom(RecordEntries(list), 0)

\* if (pageNumber <= 0 || pageNumber > pdfDoc.getPageCount()) continue
InvalidPage(pageNumber, pageCount) ==
    pageNumber <= 0 \/ pageNumber > pageCount

InitDraw ==
    /\ dpc = "loop"
    /\ drawBy \in {"overlay", "rebuild"}
    /\ drawDoc \in 1..MaxPages
    /\ drawIn \in DrawLists
    /\ drawTodo = EntriesInOrder(drawIn)
    /\ drawn = <<>>
    /\ drawThrew = {}
    /\ drawSkipped = {}
    /\ MapOff
    /\ HookIdle
    /\ render = [pc |-> "off"]
    /\ worker = [pc |-> "off"]
    /\ file = Buf("original", 2000, TRUE, "ok", drawDoc)
    /\ areas = drawIn
    /\ caller = "api"
    /\ copyOnly = FALSE
    /\ PipeIdle
    /\ FnIdle
    /\ UiIdle

\* both loops: the page key is outside the document, all its areas are passed over
DrawSkipPage ==
    /\ dpc = "loop"
    /\ drawTodo # <<>>
    /\ InvalidPage(Head(drawTodo).pageNumber, drawDoc)
    /\ drawSkipped' = drawSkipped \cup
           { drawTodo[i] : i \in { j \in 1..Len(drawTodo) :
                 drawTodo[j].pageNumber = Head(drawTodo).pageNumber } }
    /\ drawTodo' = SelectSeq(drawTodo,
           LAMBDA a : a.pageNumber # Head(drawTodo).pageNumber)
    /\ UNCHANGED <<dpc, drawBy, drawDoc, drawIn, drawn, drawThrew>>
    /\ UNCHANGED <<mapOwn, hookVars, render, worker>>
    /\ UNCHANGED <<pipeVars, fnVars, uiVars>>

\* direct overlay: try { page.drawRectangle(...) } catch { console.error }
OverlayDrawArea ==
    /\ dpc = "loop"
    /\ drawBy = "overlay"
    /\ drawTodo # <<>>
    /\ ~InvalidPage(Head(drawTodo).pageNumber, drawDoc)
    /\ \E returns \in BOOLEAN :
         IF returns
         THEN drawn' = Append(drawn, Head(drawTodo)) /\ UNCHANGED drawThrew
         ELSE drawThrew' = drawThrew \cup {Head(drawTodo)} /\ UNCHANGED drawn
    /\ drawTodo' = Tail(drawTodo)
    /\ UNCHANGED <<dpc, drawBy, drawDoc, drawIn, drawSkipped>>
    /\ UNCHANGED <<mapOwn, hookVars, render, worker>>
    /\ UNCHANGED <<pipeVars, fnVars, uiVars>>

\* rebuild-copy: page.drawRectangle(...) with no try around it; a throw
\* leaves both loops and lands in catch (fallbackError), which returns
\* originalPdfBytes
RebuildDrawArea ==
    /\ dpc = "loop"
    /\ drawBy = "rebuild"
    /\ drawTodo # <<>>
    /\ ~InvalidPage(Head(drawTodo).pageNumber, drawDoc)
    /\ \E returns \in BOOLEAN :
         IF returns
         THEN /\ drawn' = Append(drawn, Head(drawTodo))
              /\ drawTodo' = Tail(drawTodo)
              /\ UNCHANGED <<dpc, drawThrew>>
         ELSE /\ drawThrew' = drawThrew \cup {Head(drawTodo)}
              /\ dpc' = "original"
              /\ UNCHANGED <<drawn, drawTodo>>
    /\ UNCHANGED <<drawBy, drawDoc, drawIn, drawSkipped>>
    /\ UNCHANGED <<mapOwn, hookVars, render, worker>>
    /\ UNCHANGED <<pipeVars, fnVars, uiVars>>

\* both loops are through: pdfDoc.save(...) / newDoc.save(...)
DrawSave ==
    /\ dpc = "loop"
    /\ drawTodo = <<>>
    /\ dpc' = "save"
    /\ UNCHANGED <<drawBy, drawDoc, drawIn, drawTodo, drawn, drawThrew, drawSkipped>>
    /\ UNCHANGED <<mapOwn, hookVars, render, worker>>
    /\ UNCHANGED <<pipeVars, fnVars, uiVars>>

NextDraw ==
    \/ DrawSkipPage
    \/ OverlayDrawArea
    \/ RebuildDrawArea
    \/ DrawSave

SpecDraw ==
    InitDraw /\ [][NextDraw]_vars

\* C22: a drawRectangle error never aborts the strategy: every area on a page
\* of the document whose own draw did not throw is drawn, areas on pages
\* outside the document are passed over, and the strategy goes on to
\* serialize its output.
C22_DrawErrorsContained ==
    /\ dpc \in {"loop", "save"}
    /\ dpc = "save" =>
         \A i \in 1..Len(drawIn) :
            IF InvalidPage(drawIn[i].pageNumber, drawDoc)
            THEN drawIn[i] \in drawSkipped
            ELSE drawIn[i] \in drawThrew \/ \E j \in 1..Len(drawn) : drawn[j] = drawIn[i]

----------------------------------------------------------------------------
\* ---- further claims about the page components ----

\* C23: from the click on Apply Redactions until downloadRedactedPDF has
\* settled, the Apply button and drawing stay disabled.
C23_LockedWhileInFlight ==
    (applyTimers # {} \/ inFlight > 0) =>
        (ContentShown => ApplyDisabled /\ ~EnableDrawing)

----------------------------------------------------------------------------
\* usePdfLoader: one instance of the hook whose file argument is replaced
\* by another File object while earlier loadPdf() calls are still running.

MaxHookFiles ==
    2

NoHookFile ==
    [id |-> 0, pages |-> 0, encrypted |-> FALSE]

\* the File objects the hook can be given next
HookFilesAfter(f) ==
    { [id |-> f.id + 1, pages |-> p, encrypted |-> e] :
        p \in {1, MaxPages}, e \in BOOLEAN }

InitLoader ==
    /\ hookFile = NoHookFile
    /\ hook = HookFresh
    /\ hookLoads = {}
    /\ MapOff
    /\ DrawIdle
    /\ render = [pc |-> "off"]
    /\ worker = [pc |-> "off"]
    /\ file = Buf("original", 2000, TRUE, "ok", 1)
    /\ areas = <<>>
    /\ caller = "ui"
    /\ copyOnly = FALSE
    /\ PipeIdle
    /\ FnIdle
    /\ UiIdle

\* whether a loadPdf() call belongs to a file that is no longer current
Stale(job) ==
    hook.currentFileRef # job.file.id

\* the state after a step of loadPdf of the given job has set some fields
HookJobStep(job, at, h) ==
    /\ hook' = h
    /\ hookLoads' = (hookLoads \ {job}) \cup {[job EXCEPT !.pc = at]}
    /\ UNCHANGED hookFile

\* the effect on [file]: a new File object arrives; loadPdf() runs up to its
\* first await (initPdfWorker if the worker is not set up, else arrayBuffer)
HookFileEffect ==
    /\ hookFile.id < MaxHookFiles
    /\ \E f \in HookFilesAfter(hookFile), workerReady \in BOOLEAN :
         /\ hookFile' = f
         /\ hook' = [hook EXCEPT !.isLoading = TRUE, !.error = FALSE,
                                 !.loadingProgress = IF workerReady THEN 5 ELSE 0,
                                 !.isPdfEncrypted = FALSE,
                                 !.currentFileRef = f.id]
         /\ hookLoads' = hookLoads \cup
                {[file |-> f, pc |-> IF workerReady THEN "read" ELSE "init"]}
    /\ UNCHANGED <<mapOwn, drawVars, render, worker>>
    /\ UNCHANGED <<pipeVars, fnVars, uiVars>>

\* await initPdfWorker() returns: setLoadingProgress(5)
HookWorkerReady ==
    /\ \E job \in hookLoads :
         /\ job.pc = "init"
         /\ HookJobStep(job, "read", [hook EXCEPT !.loadingProgress = 5])
    /\ UNCHANGED <<mapOwn, drawVars, render, worker>>
    /\ UNCHANGED <<pipeVars, fnVars, uiVars>>

\* await getFileArrayBuffer() returns: setLoadingProgress(10)
HookRead ==
    /\ \E job \in hookLoads :
         /\ job.pc = "read"
         /\ HookJobStep(job, "check", [hook EXCEPT !.loadingProgress = 10])
    /\ UNCHANGED <<mapOwn, drawVars, render, worker>>
    /\ UNCHANGED <<pipeVars, fnVars, uiVars>>

\* checkTask.promise settles: setIsPdfEncrypted(isEncrypted),
\* setLoadingProgress(20)
HookCheck ==
    /\ \E job \in hookLoads :
         /\ job.pc = "check"
         /\ \E isEncrypted \in (IF job.file.encrypted THEN BOOLEAN ELSE {FALSE}) :
              HookJobStep(job, "load",
                  [hook EXCEPT !.isPdfEncrypted = isEncrypted,
                               !.loadingProgress = 20])
    /\ UNCHANGED <<mapOwn, drawVars, render, worker>>
    /\ UNCHANGED <<pipeVars, fnVars, uiVars>>

\* loadingTask.onProgress: setLoadingProgress(percent), 20 <= percent <= 99
HookProgress ==
    /\ \E job \in hookLoads :
         /\ job.pc = "load"
         /\ HookJobStep(job, "loading", [hook EXCEPT !.loadingProgress = 60])
    /\ UNCHANGED <<mapOwn, drawVars, render, worker>>
    /\ UNCHANGED <<pipeVars, fnVars, uiVars>>

\* loadingTask.promise settles: the updates of the try and the catch, both
\* under if (currentFileRef.current === file)
HookFinish ==
    /\ \E job \in hookLoads :
         /\ job.pc \in {"load", "loading"}
         /\ hookLoads' = hookLoads \ {job}
         /\ \E ok \in BOOLEAN, saysEncrypted \in BOOLEAN :
              /\ saysEncrypted => ~ok /\ job.file.encrypted
              /\ IF Stale(job) THEN hook' = hook
                 ELSE IF ok
                 THEN hook' = [hook EXCEPT !.pdfDocument = job.file.id,
                                           !.totalPages = job.file.pages,
                                           !.loadingProgress = 100,
                                           !.isLoading = FALSE]
                 ELSE hook' = [hook EXCEPT !.isPdfEncrypted = saysEncrypted \/ @,
                                           !.error = TRUE,
                                           !.isLoading = FALSE]
    /\ UNCHANGED hookFile
    /\ UNCHANGED <<mapOwn, drawVars, render, worker>>
    /\ UNCHANGED <<pipeVars, fnVars, uiVars>>

NextLoader ==
    \/ HookFileEffect
    \/ HookWorkerReady
    \/ HookRead
    \/ HookCheck
    \/ HookProgress
    \/ HookFinish

SpecLoader ==
    InitLoader /\ [][NextLoader]_vars

\* C24: no step of a load whose file is no longer the current one modifies
\* the state of the hook.
C24_StaleLoadsIgnored ==
    [][\A job \in hookLoads :
          (Stale(job) /\ job \notin hookLoads') => hook' = hook]_vars

\* C26: while isPdfEncrypted is true no area is added to the store (the
\* viewer's list or Home's) and no redaction pipeline is started.
C26_EncryptedGated ==
    [][isPdfEncrypted =>
          /\ Len(viewerAreas') <= Len(viewerAreas)
          /\ Len(homeAreas') <= Len(homeAreas)
          /\ inFlight' <= inFlight]_vars

\* C27: whenever Apply Redactions can be pressed, Home's redactionAreas
\* (what the pipeline is given) equals the viewer's redactionAreas (what
\* the user is shown).
C27_ListsAgree ==
    (upc = "on" /\ ContentShown /\ ~ApplyDisabled) => homeAreas = viewerAreas

\* timers fire and the promise of downloadRedactedPDF settles
SpecApplyFair ==
    /\ SpecApply
    /\ WF_vars(ApplyTimerFires)
    /\ WF_vars(RedactSettle)

\* C28: a handleRedact call that set isProcessing to true sets it back to
\* false, and when it does exactly one of successMessage and error is set.
C28_ProcessingEnds ==
    /\ isProcessing ~> ~isProcessing
    /\ [][inFlight' < inFlight =>
            /\ ~isProcessing'
            /\ (successMessage' # MsgNull) # (error' # MsgNull)]_vars

----------------------------------------------------------------------------
\* PDFCanvas, the render effect on [pdfDocument, currentPage, scale] of one
\* mounted canvas.  Every run of the effect is numbered; run g owns one
\* 50 ms timer and, if that fires while the run is current, one renderPage()
\* call.  render.jobs[g] is where that call stands, render.active the render
\* tasks that are drawing, render.started the runs that called page.render,
\* render.staleDraw whether a run drew on the canvas after a later run had
\* called page.render.

MaxRenders ==
    3

InitRender ==
    /\ render = [pc |-> "on", effect |-> 1, jobs |-> <<"timer">>,
                 renderTaskRef |-> 0, active |-> {}, started |-> {},
                 staleDraw |-> FALSE]
    /\ MapOff
    /\ DrawIdle
    /\ HookIdle
    /\ worker = [pc |-> "off"]
    /\ file = Buf("original", 2000, TRUE, "ok", 1)
    /\ areas = <<>>
    /\ caller = "ui"
    /\ copyOnly = FALSE
    /\ PipeIdle
    /\ FnIdle
    /\ UiIdle

\* renderTaskRef.current.cancel(); renderTaskRef.current = null: the task
\* stops drawing and its promise rejects
CancelTask(r) ==
    IF r.renderTaskRef = 0 THEN r
    ELSE [r EXCEPT !.active = @ \ {r.renderTaskRef},
                   !.jobs[r.renderTaskRef] =
                       IF @ = "rendering" THEN "cancelled" ELSE @,
                   !.renderTaskRef = 0]

\* run g touches the content canvas
Draws(r, g) ==
    [r EXCEPT !.staleDraw = @ \/ \E n \in r.started : n > g]

\* timers of equal delay fire in the order they were set
FirstAt(stage, g) ==
    \A n \in 1..(g - 1) : render.jobs[n] # stage

\* a dependency changes: the cleanup of the current run (mounted = false,
\* cancel the task in renderTaskRef), then the next run and its 50 ms timer
RenderEffect ==
    /\ render.pc = "on"
    /\ render.effect < MaxRenders
    /\ render' = [CancelTask(render) EXCEPT !.effect = @ + 1,
                                            !.jobs = Append(@, "timer")]
    /\ UNCHANGED <<mapOwn, drawVars, hookVars, worker>>
    /\ UNCHANGED <<pipeVars, fnVars, uiVars>>

\* the 50 ms timer of run g: if (!mounted) return; else renderPage() up to
\* its 100 ms wait, cancelling the task in renderTaskRef first
RenderTimerFires ==
    /\ render.pc = "on"
    /\ \E g \in 1..render.effect :
         /\ render.jobs[g] = "timer"
         /\ FirstAt("timer", g)
         /\ render' = IF g # render.effect
                      THEN [render EXCEPT !.jobs[g] = "dropped"]
                      ELSE [CancelTask(render) EXCEPT !.jobs[g] = "wait"]
    /\ UNCHANGED <<mapOwn, drawVars, hookVars, worker>>
    /\ UNCHANGED <<pipeVars, fnVars, uiVars>>

\* the 100 ms wait of renderPage ends: the canvas is there and isRendering
\* is still true (only the closure renderPage returns at its end clears it),
\* so clearRect and getPage follow
RenderWaitEnds ==
    /\ render.pc = "on"
    /\ \E g \in 1..render.effect :
         /\ render.jobs[g] = "wait"
         /\ FirstAt("wait", g)
         /\ render' = [Draws(render, g) EXCEPT !.jobs[g] = "getPage"]
    /\ UNCHANGED <<mapOwn, drawVars, hookVars, worker>>
    /\ UNCHANGED <<pipeVars, fnVars, uiVars>>

\* getPage resolves: the canvas is resized, page.render is called and the
\* task is stored in renderTaskRef.  On a canvas another task is drawing on,
\* PDF.js either lets both draw or rejects the promise of the new task.
RenderStarts ==
    /\ render.pc = "on"
    /\ \E g \in 1..render.effect :
         /\ render.jobs[g] = "getPage"
         /\ \E refused \in (IF render.active = {} THEN {FALSE} ELSE BOOLEAN) :
              render' = [Draws(render, g) EXCEPT
                            !.jobs[g] = IF refused THEN "failed" ELSE "rendering",
                            !.renderTaskRef = g,
                            !.active = IF refused THEN @ ELSE @ \cup {g},
                            !.started = @ \cup {g}]
    /\ UNCHANGED <<mapOwn, drawVars, hookVars, worker>>
    /\ UNCHANGED <<pipeVars, fnVars, uiVars>>

\* renderTask.promise resolves: the page is drawn;
\* if (renderTaskRef.current === renderTask) renderTaskRef.current = null
RenderCompletes ==
    /\ render.pc = "on"
    /\ \E g \in render.active :
         /\ render.jobs[g] = "rendering"
         /\ render' = [Draws(render, g) EXCEPT
                          !.jobs[g] = "done",
                          !.active = @ \ {g},
                          !.renderTaskRef = IF @ = g THEN 0 ELSE @]
    /\ UNCHANGED <<mapOwn, drawVars, hookVars, worker>>
    /\ UNCHANGED <<pipeVars, fnVars, uiVars>>

NextRender ==
    \/ RenderEffect
    \/ RenderTimerFires
    \/ RenderWaitEnds
    \/ RenderStarts
    \/ RenderCompletes

SpecRender ==
    InitRender /\ [][NextRender]_vars

\* C29: at most one render task is active on the content canvas, and no
\* superseded render draws on it after a newer render has started.
C29_RendersDoNotOverlap ==
    render.pc = "on" =>
        /\ Cardinality(render.active) <= 1
        /\ ~render.staleDraw

----------------------------------------------------------------------------
\* pdfWorkerLoader and setupPdfWorker in one browser tab: the module flags
\* and the calls of initPdfWorker (the module's own 200 ms timer, the mount
\* effect and loadPdf of usePdfLoader), setupPdfWorker and safeGetDocument.
\* worker.configured counts the assignments to GlobalWorkerOptions.workerSrc,
\* worker.waiting tells who started the initPdfWorker that is in its 100 ms
\* wait, worker.log holds every call made and what its caller was told.

MaxWorkerCalls ==
    3

InitWorker ==
    /\ worker = [pc |-> "on", isWorkerInitialized |-> FALSE,
                 initializationAttempted |-> FALSE, setupAttempted |-> FALSE,
                 setupPromise |-> FALSE, configured |-> 0, waiting |-> "none",
                 log |-> <<>>]
    /\ MapOff
    /\ DrawIdle
    /\ HookIdle
    /\ render = [pc |-> "off"]
    /\ file = Buf("original", 2000, TRUE, "ok", 1)
    /\ areas = <<>>
    /\ caller = "api"
    /\ copyOnly = FALSE
    /\ PipeIdle
    /\ FnIdle
    /\ UiIdle

\* a call returned (or returned a promise still pending)
Told(w, fn, answer) ==
    [w EXCEPT !.log = Append(@, [fn |-> fn, told |-> answer])]

\* initPdfWorker up to its return or its 100 ms wait; setupThrows and
\* fallbackThrows say whether the two assignments to workerSrc throw
InitPdfWorker(w, fn, setupThrows, fallbackThrows) ==
    IF w.isWorkerInitialized THEN Told(w, fn, "true")
    ELSE IF w.initializationAttempted THEN Told(w, fn, "false")
    ELSE IF ~setupThrows
    THEN Told([w EXCEPT !.initializationAttempted = TRUE, !.configured = @ + 1,
                        !.waiting = fn], fn, "pending")
    ELSE IF ~fallbackThrows
    THEN Told([w EXCEPT !.initializationAttempted = TRUE, !.configured = @ + 1,
                        !.isWorkerInitialized = TRUE], fn, "true")
    ELSE Told([w EXCEPT !.initializationAttempted = TRUE], fn, "false")

\* setupPdfWorker up to its return; the executor of setupPromise runs
\* initPdfWorker at once
SetupPdfWorker(w, setupThrows, fallbackThrows) ==
    IF w.isWorkerInitialized THEN Told(w, "setupPdfWorker", "true")
    ELSE IF w.setupPromise THEN Told(w, "setupPdfWorker", "pending")
    ELSE IF w.setupAttempted THEN Told(w, "setupPdfWorker", "false")
    ELSE LET inner == InitPdfWorker([w EXCEPT !.setupAttempted = TRUE],
                                    "setupPdfWorker", setupThrows, fallbackThrows)
         IN  [inner EXCEPT !.setupPromise = (inner.waiting = "setupPdfWorker")]

\* safeGetDocument before originalGetDocument
SafeGetDocument(w, setupThrows) ==
    Told(IF w.initializationAttempted THEN w
         ELSE IF setupThrows THEN [w EXCEPT !.initializationAttempted = TRUE]
         ELSE [w EXCEPT !.initializationAttempted = TRUE, !.configured = @ + 1,
                        !.isWorkerInitialized = TRUE],
         "safeGetDocument", "task")

InitPdfWorkerCall ==
    /\ worker.pc = "on"
    /\ Len(worker.log) < MaxWorkerCalls
    /\ \E setupThrows \in BOOLEAN, fallbackThrows \in BOOLEAN :
         worker' = InitPdfWorker(worker, "initPdfWorker", setupThrows, fallbackThrows)
    /\ UNCHANGED <<mapOwn, drawVars, hookVars, render>>
    /\ UNCHANGED <<pipeVars, fnVars, uiVars>>

SetupPdfWorkerCall ==
    /\ worker.pc = "on"
    /\ Len(worker.log) < MaxWorkerCalls
    /\ \E setupThrows \in BOOLEAN, fallbackThrows \in BOOLEAN :
         worker' = SetupPdfWorker(worker, setupThrows, fallbackThrows)
    /\ UNCHANGED <<mapOwn, drawVars, hookVars, render>>
    /\ UNCHANGED <<pipeVars, fnVars, uiVars>>

SafeGetDocumentCall ==
    /\ worker.pc = "on"
    /\ Len(worker.log) < MaxWorkerCalls
    /\ \E setupThrows \in BOOLEAN :
         worker' = SafeGetDocument(worker, setupThrows)
    /\ UNCHANGED <<mapOwn, drawVars, hookVars, render>>
    /\ UNCHANGED <<pipeVars, fnVars, uiVars>>

\* the 100 ms wait of initPdfWorker ends: isWorkerInitialized = true, return
\* true; setupPdfWorker resolves its promise and sets setupPromise = null
InitWaitEnds ==
    /\ worker.pc = "on"
    /\ worker.waiting # "none"
    /\ worker' = [worker EXCEPT
                     !.isWorkerInitialized = TRUE,
                     !.waiting = "none",
                     !.setupPromise = FALSE,
                     !.log = [i \in DOMAIN @ |->
                                IF @[i].told = "pending"
                                THEN [@[i] EXCEPT !.told = "true"] ELSE @[i]]]
    /\ UNCHANGED <<mapOwn, drawVars, hookVars, render>>
    /\ UNCHANGED <<pipeVars, fnVars, uiVars>>

NextWorker ==
    \/ InitPdfWorkerCall
    \/ SetupPdfWorkerCall
    \/ SafeGetDocumentCall
    \/ InitWaitEnds

SpecWorker ==
    InitWorker /\ [][NextWorker]_vars

\* C30: the worker source is configured at most once, and the worker is
\* never initialized after a caller was told false.
C30_InitOnceAndConsistent ==
    worker.pc = "on" =>
        /\ worker.configured <= 1
        /\ worker.isWorkerInitialized =>
             \A i \in DOMAIN worker.log : worker.log[i].told # "false"

====
